---- MODULE Spec2Model ----
(***************************************************************************)
(* Verification model of the WRM-Systems integration:                      *)
(*   - the historical store kept by WRMSystemsDataUpdateCoordinator        *)
(*     (coordinator.py): load, cycle merge, backfill merge, periodic       *)
(*     cleanup and force refresh, sequentially (SpecStore) and as          *)
(*     interleaved asyncio tasks around _storage_lock (Spec);              *)
(*   - the HTTP client WRMSystemsAPIClient (api.py): rate limiter and      *)
(*     retry loop, used by two concurrent callers (SpecApi).               *)
(*                                                                         *)
(* Time is counted in whole model units.  In the store specifications one  *)
(* unit stands for 45 days, so that the validator's 90-day window is       *)
(* VALID_AGE = 2 units and a retention of historical_days = 1 unit is      *)
(* shorter than that window.  In the client specification one unit is one  *)
(* second.                                                                 *)
(***************************************************************************)
EXTENDS Integers, Sequences, FiniteSets, TLC

(***************************************************************************)
(* Bounds of the model.                                                    *)
(***************************************************************************)
\* last value of the wall clock in the store specifications
MaxNow == 3
\* longest API response (number of [timestamp, value] pairs) in SpecStore
MaxBatch == 2
\* longest API response in Spec, where two tasks hold a response each
MaxFetch == 1
\* cycles counted by _update_count in one run of Spec
MaxCycles == 10
\* attempt ceilings above MAX_RETRIES that SpecApi runs with
MaxExtraRetries == 1
\* longest element of a 'readings' list in SpecReadings
MaxItems == 3
\* longest sequence of readings given to the usage functions in SpecUsage
MaxReadings == 3
\* 30-day windows that lie between now and datetime.min in SpecHistory
\* (24664 of them in 2026)
MaxWindows == 4

(***************************************************************************)
(* Program constants.                                                      *)
(***************************************************************************)
\* Python's None where the code holds "int | None"
NONE == -1
\* the sentinel of historical_days meaning unlimited history
UNLIMITED == -1
\* 90 * 24 * 3600 seconds, on the model's time scale
VALID_AGE == 2
\* const.py
MAX_RETRIES == 3
RETRY_DELAY == 2
\* self._min_request_interval = 1.0, in seconds
MIN_REQUEST_INTERVAL == 1
\* "if self._update_count % 10 == 0"
CLEANUP_EVERY == 10
\* "if self._update_count > 1000"
COUNT_RESET == 1000
\* the upper sanity bound on a value
MAX_VALUE == 999999
\* const.py: DEFAULT_MAX_DATA_AGE_HOURS, 48 hours, on the model's time scale
MAX_DATA_AGE == 1
\* valid_readings[-10:]
LAST_READINGS == 10

\* wall clock at the start of a run: old enough that past timestamps exist
NowInit == VALID_AGE

\* timestamps and values an API response may carry
RawTimestamps == 1..(MaxNow + 1)
RawValues == {-1, 10}
RawPairs == RawTimestamps \X RawValues

\* the configurations of historical_days explored: unlimited, or 1 unit
HistoricalDaysChoices == {UNLIMITED, 1}

VARIABLES
    \* the historical store (coordinator.py)
    now,                     \* datetime.now(timezone.utc), in model units
    historical_days,         \* self._historical_days
    historical_data,         \* self._historical_data
    last_reading_timestamp,  \* self._last_reading_timestamp
    stored,                  \* the record persisted through self.store
    \* the coordinator's tasks (Spec)
    storage_lock,            \* self._storage_lock: the task holding it, or "free"
    pc,                      \* where each task stands in its coroutine
    new_readings,            \* the batch handed to _update_historical_data
    fetch_since,             \* the timestamp the cycle's fetch was started with
    backfill_readings,       \* async_backfill_data's local
    forcing,                 \* the operator's backfill runs inside async_force_refresh
    update_count,            \* self._update_count (0: the attribute is not set yet)
    cycle_result,            \* how the last cycle ended
    fetch_outcome,           \* <<phase, end>> of the cycle's _fetch_new_readings (history)
    latest_data,             \* what the cycle's latest-reading call gave (history)
    merged,                  \* timestamps merged since the last clear (history)
    \* a merge applied twice (SpecMerge)
    phase,                   \* "start", "merged", "merged_again"
    first_merge,             \* the store as the first merge left it (history)
    \* the API client and the calls of its two users (SpecApi)
    max_retries,             \* the attempt ceiling, MAX_RETRIES in const.py
    time_since_last,         \* loop.time() - self._last_request_time, up to the interval
    api_pc,                  \* where each caller stands in _make_request_with_retry
    attempt,                 \* the loop variable of "for attempt in range(MAX_RETRIES)"
    sleep_left,              \* what is left of the caller's asyncio.sleep
    responses,               \* what each request of the call ended with (history)
    requests,                \* HTTP requests issued by the call (history)
    sleeps,                  \* backoff sleeps started by the call (history)
    outcome,                 \* what the call returned or raised
    since_request,           \* time since the last HTTP request, up to the interval (history)
    request_gap,             \* time between the last two HTTP requests (history)
    \* one function applied to one input (SpecReadings, SpecValidator)
    call_arg,                \* the input
    call_applied,            \* the function that was applied, "none" before
    call_result              \* what it returned or raised

storeVars == <<now, historical_days, historical_data, last_reading_timestamp, stored>>
taskVars == <<storage_lock, pc, fetch_since, backfill_readings, forcing,
              update_count, cycle_result, fetch_outcome, latest_data, merged>>
mergeVars == <<phase, first_merge>>
apiVars == <<max_retries, time_since_last, api_pc, attempt, sleep_left, responses,
             requests, sleeps, outcome, since_request, request_gap>>

callVars == <<call_arg, call_applied, call_result>>

vars == <<storeVars, new_readings, taskVars, mergeVars, apiVars, callVars>>

(***************************************************************************)
(* Sequences of readings.                                                  *)
(***************************************************************************)
Timestamps(readings) == {readings[i].timestamp : i \in 1..Len(readings)}

RECURSIVE MapSeq(_, _)
MapSeq(F(_), s) ==
    IF s = <<>> THEN <<>> ELSE <<F(Head(s))>> \o MapSeq(F, Tail(s))

\* list.sort(key=lambda x: x["timestamp"]) is stable: a reading is placed
\* after every reading whose timestamp is not greater than its own.
RECURSIVE InsertByTimestamp(_, _)
InsertByTimestamp(sorted, r) ==
    IF sorted = <<>> THEN <<r>>
    ELSE IF Head(sorted).timestamp <= r.timestamp
         THEN <<Head(sorted)>> \o InsertByTimestamp(Tail(sorted), r)
         ELSE <<r>> \o sorted

\* mutant: the list is left in the order of arrival
SortByTimestamp_Unsorted(readings) == readings

RECURSIVE SortByTimestamp(_)
SortByTimestamp(readings) ==
    IF readings = <<>> THEN <<>>
    ELSE InsertByTimestamp(SortByTimestamp(SubSeq(readings, 1, Len(readings) - 1)),
                           readings[Len(readings)])

IsSortedByTimestamp(readings) ==
    \A i \in 1..(Len(readings) - 1) : readings[i].timestamp <= readings[i + 1].timestamp

NoDuplicateTimestamps(readings) ==
    \A i, j \in 1..Len(readings) : readings[i].timestamp = readings[j].timestamp => i = j

MaxTimestamp(readings) ==
    CHOOSE t \in Timestamps(readings) : \A u \in Timestamps(readings) : u <= t

(***************************************************************************)
(* Reading validator (coordinator.py).                                     *)
(***************************************************************************)
SafeConvertTimestamp(timestamp, current_time) ==
    IF timestamp < current_time - VALID_AGE \/ timestamp > current_time
    THEN NONE
    ELSE IF timestamp > 0 THEN timestamp ELSE NONE

SafeConvertValue(value) ==
    IF value < 0 \/ value > MAX_VALUE THEN NONE ELSE value

\* the validated reading, or NONE
ValidateReadingData(reading, current_time) ==
    LET timestamp == SafeConvertTimestamp(reading.timestamp, current_time)
        value == SafeConvertValue(reading.value)
    IN  IF timestamp = NONE \/ value = NONE
        THEN NONE
        ELSE [timestamp |-> timestamp, value |-> value]

IsValidReading(reading, current_time) ==
    /\ SafeConvertTimestamp(reading.timestamp, current_time) # NONE
    /\ SafeConvertValue(reading.value) # NONE

(***************************************************************************)
(* API client: readings of a date range (api.py).  The response body has   *)
(* passed async_get_readings, so every element is a [timestamp, value]     *)
(* pair of numbers.                                                        *)
(***************************************************************************)
ToReading(pair) == [timestamp |-> pair[1], value |-> pair[2]]

GetReadingsRange(raw) == SortByTimestamp(MapSeq(ToReading, raw))

\* a plausible slip: the reading at the timestamp itself is kept
GetReadingsSince_Inclusive(readings, since_timestamp) ==
    SelectSeq(readings, LAMBDA r : r.timestamp >= since_timestamp)

\* async_get_readings_since, given what async_get_readings_range returned
GetReadingsSince(readings, since_timestamp) ==
    SelectSeq(readings, LAMBDA r : r.timestamp > since_timestamp)

\* "if self._last_reading_timestamp:" is false for None and for 0
Truthy(timestamp) == timestamp # NONE /\ timestamp # 0

(***************************************************************************)
(* Historical store (coordinator.py).                                      *)
(***************************************************************************)
EmptyDict == [loaded |-> FALSE, readings |-> <<>>, last_reading_timestamp |-> NONE]
\* a plausible slip: the store is reset to the empty dict of __init__
FreshData_Empty == [loaded |-> FALSE, readings |-> <<>>, last_reading_timestamp |-> NONE]

FreshData == [loaded |-> TRUE, readings |-> <<>>, last_reading_timestamp |-> NONE]

CutoffTimestamp(days, current_time) == current_time - days

\* _load_historical_data: the pair <<_historical_data, _last_reading_timestamp>>
LoadHistoricalData(stored_data, last) ==
    IF stored_data.present
    THEN <<[loaded |-> TRUE, readings |-> stored_data.readings,
            last_reading_timestamp |-> stored_data.last_reading_timestamp],
           stored_data.last_reading_timestamp>>
    ELSE <<FreshData, last>>

\* mutant: a timestamp that is already stored is not filtered out
ValidNewReadings_KeepStored(existing_readings, batch, current_time) ==
    LET checked == SelectSeq(batch, LAMBDA r : IsValidReading(r, current_time))
        Validated(r) == ValidateReadingData(r, current_time)
    IN  MapSeq(Validated, checked)

\* the readings of a batch that pass validation and are not stored yet
ValidNewReadings(existing_readings, batch, current_time) ==
    LET existing_timestamps == Timestamps(existing_readings)
        checked == SelectSeq(batch,
                             LAMBDA r : /\ IsValidReading(r, current_time)
                                        /\ r.timestamp \notin existing_timestamps)
        Validated(r) == ValidateReadingData(r, current_time)
    IN  MapSeq(Validated, checked)

\* a plausible slip: the time filter is applied whatever historical_days is
UpdateHistoricalData_AlwaysFilter(data, last, batch, days, current_time) ==
    LET valid_new_readings == ValidNewReadings(data.readings, batch, current_time)
        recent_readings ==
            SelectSeq(SortByTimestamp(data.readings \o valid_new_readings),
                      LAMBDA r : r.timestamp >= CutoffTimestamp(days, current_time))
    IN  IF valid_new_readings # <<>>
        THEN <<[data EXCEPT !.readings = recent_readings], last, TRUE>>
        ELSE <<data, last, FALSE>>

\* the body of _update_historical_data under the lock:
\* <<_historical_data, _last_reading_timestamp, saved>>
UpdateHistoricalData(data, last, batch, days, current_time) ==
    LET existing_readings == data.readings
        valid_new_readings == ValidNewReadings(existing_readings, batch, current_time)
        combined_readings == SortByTimestamp(existing_readings \o valid_new_readings)
        recent_readings ==
            IF days # UNLIMITED
            THEN SelectSeq(combined_readings,
                           LAMBDA r : r.timestamp >= CutoffTimestamp(days, current_time))
            ELSE combined_readings
        new_last ==
            IF recent_readings # <<>>
            THEN recent_readings[Len(recent_readings)].timestamp
            ELSE last
    IN  IF valid_new_readings # <<>>
        THEN <<[data EXCEPT !.readings = recent_readings,
                            !.last_reading_timestamp =
                                IF recent_readings # <<>> THEN new_last ELSE @],
               new_last, TRUE>>
        ELSE <<data, last, FALSE>>

\* {r["timestamp"]: r for r in all_readings}: the last reading of each timestamp
LastWithTimestamp(readings, t) ==
    readings[CHOOSE i \in 1..Len(readings) :
                /\ readings[i].timestamp = t
                /\ \A j \in (i + 1)..Len(readings) : readings[j].timestamp # t]

RECURSIVE AscendingSeq(_)
AscendingSeq(S) ==
    IF S = {} THEN <<>>
    ELSE LET m == CHOOSE x \in S : \A y \in S : x <= y
         IN  <<m>> \o AscendingSeq(S \ {m})

UniqueSortedReadings(all_readings) ==
    LET ByTimestamp(t) == LastWithTimestamp(all_readings, t)
    IN  MapSeq(ByTimestamp, AscendingSeq(Timestamps(all_readings)))

\* a plausible slip: the last timestamp is taken from the head of the list
BackfillData_FirstTimestamp(data, last, backfill_batch, days, current_time) ==
    LET sorted_readings == UniqueSortedReadings(data.readings \o backfill_batch)
        recent_readings ==
            IF days # UNLIMITED
            THEN SelectSeq(sorted_readings,
                           LAMBDA r : r.timestamp >= CutoffTimestamp(days, current_time))
            ELSE sorted_readings
        new_last == IF recent_readings # <<>> THEN recent_readings[1].timestamp ELSE last
    IN  <<[data EXCEPT !.readings = recent_readings,
                       !.last_reading_timestamp =
                           IF recent_readings # <<>> THEN new_last ELSE @],
          new_last, TRUE>>

\* the body of async_backfill_data under the lock, after the load:
\* <<_historical_data, _last_reading_timestamp, saved>>
BackfillData(data, last, backfill_batch, days, current_time) ==
    LET existing_readings == data.readings
        all_readings == existing_readings \o backfill_batch
        sorted_readings == UniqueSortedReadings(all_readings)
        recent_readings ==
            IF days # UNLIMITED
            THEN SelectSeq(sorted_readings,
                           LAMBDA r : r.timestamp >= CutoffTimestamp(days, current_time))
            ELSE sorted_readings
        new_last ==
            IF recent_readings # <<>> THEN MaxTimestamp(recent_readings) ELSE last
    IN  <<[data EXCEPT !.readings = recent_readings,
                       !.last_reading_timestamp =
                           IF recent_readings # <<>> THEN new_last ELSE @],
          new_last, TRUE>>

\* a plausible slip: the reading exactly at the cutoff is dropped
PeriodicStorageCleanup_StrictCutoff(data, last, days, current_time) ==
    LET recent_readings ==
            SelectSeq(data.readings,
                LAMBDA r : r.timestamp > CutoffTimestamp(days, current_time))
    IN  IF days # UNLIMITED /\ days > 0 /\ Len(recent_readings) # Len(data.readings)
        THEN <<[data EXCEPT !.readings = recent_readings], last, TRUE>>
        ELSE <<data, last, FALSE>>

\* the body of _periodic_storage_cleanup under the lock:
\* <<_historical_data, _last_reading_timestamp, saved>>
PeriodicStorageCleanup(data, last, days, current_time) ==
    LET readings == data.readings
        recent_readings ==
            SortByTimestamp(SelectSeq(readings,
                LAMBDA r : r.timestamp >= CutoffTimestamp(days, current_time)))
        new_last ==
            IF recent_readings # <<>>
            THEN recent_readings[Len(recent_readings)].timestamp
            ELSE last
    IN  IF days # UNLIMITED /\ days > 0 /\ Len(recent_readings) # Len(readings)
        THEN <<[data EXCEPT !.readings = recent_readings,
                            !.last_reading_timestamp =
                                IF recent_readings # <<>> THEN new_last ELSE @],
               new_last, TRUE>>
        ELSE <<data, last, FALSE>>

\* a plausible slip: the readings are written without the last timestamp
SavedRecord_ReadingsOnly(data) ==
    [present |-> TRUE, readings |-> data.readings, last_reading_timestamp |-> NONE]

\* store.async_save(self._historical_data): the record as persisted
SavedRecord(data) ==
    [present |-> TRUE, readings |-> data.readings,
     last_reading_timestamp |-> data.last_reading_timestamp]

NoRecord == [present |-> FALSE, readings |-> <<>>, last_reading_timestamp |-> NONE]

\* the response bodies the server may send: up to n pairs, in any order
RawBatches(n) == UNION {[1..k -> RawPairs] : k \in 0..n}

\* what async_get_readings_range may return for those bodies
RangeResults == {GetReadingsRange(raw) : raw \in RawBatches(MaxBatch)}

\* records a previous run of the program may have persisted
InitialRecords ==
    {NoRecord,
     [present |-> TRUE,
      readings |-> <<[timestamp |-> 1, value |-> 10]>>,
      last_reading_timestamp |-> 1],
     [present |-> TRUE,
      readings |-> <<[timestamp |-> 1, value |-> 10], [timestamp |-> 2, value |-> 10]>>,
      last_reading_timestamp |-> 2]}

\* the variables of the other specifications, at rest
TasksIdle ==
    /\ storage_lock = "free"
    /\ pc = [t \in {"cycle", "operator"} |-> "idle"]
    /\ fetch_since = NONE
    /\ backfill_readings = <<>>
    /\ forcing = FALSE
    /\ update_count = 0
    /\ cycle_result = "none"
    /\ fetch_outcome = <<"none", "none">>
    /\ latest_data = "none"
    /\ merged = {}

MergeIdle ==
    /\ phase = "start"
    /\ first_merge = <<>>

\* no function applied
CallIdle ==
    /\ call_arg = <<>>
    /\ call_applied = "none"
    /\ call_result = <<>>

\* the client as __init__ leaves it, no call under way
Callers == {"cycle", "operator"}

ApiIdle ==
    /\ max_retries = MAX_RETRIES
    /\ time_since_last = MIN_REQUEST_INTERVAL
    /\ api_pc = [c \in Callers |-> "idle"]
    /\ attempt = [c \in Callers |-> 0]
    /\ sleep_left = [c \in Callers |-> 0]
    /\ responses = [c \in Callers |-> <<>>]
    /\ requests = [c \in Callers |-> 0]
    /\ sleeps = [c \in Callers |-> 0]
    /\ outcome = [c \in Callers |-> "none"]
    /\ since_request = MIN_REQUEST_INTERVAL
    /\ request_gap = MIN_REQUEST_INTERVAL

(***************************************************************************)
(* SpecStore: the store's operations one after another, each a whole       *)
(* handler (every one of them runs under _storage_lock).                   *)
(***************************************************************************)
StoreInit ==
    /\ now = NowInit
    /\ historical_days \in HistoricalDaysChoices
    /\ historical_data = EmptyDict
    /\ last_reading_timestamp = NONE
    /\ stored \in InitialRecords
    /\ new_readings = <<>>
    /\ TasksIdle
    /\ MergeIdle
    /\ ApiIdle
    /\ CallIdle

\* applies <<_historical_data, _last_reading_timestamp, saved>>
Apply(result) ==
    /\ historical_data' = result[1]
    /\ last_reading_timestamp' = result[2]
    /\ stored' = IF result[3] THEN SavedRecord(result[1]) ELSE stored

\* _async_update_data, first step: load the persisted record once
StoreLoad ==
    /\ ~historical_data.loaded
    /\ Apply(<<LoadHistoricalData(stored, last_reading_timestamp)[1],
               LoadHistoricalData(stored, last_reading_timestamp)[2], FALSE>>)
    /\ UNCHANGED <<now, historical_days, new_readings, taskVars, mergeVars, apiVars, callVars>>

\* _fetch_new_readings: what the chosen fetch hands to the merge
FetchNewReadings(readings, last) ==
    IF Truthy(last) THEN GetReadingsSince(readings, last) ELSE readings

\* _async_update_data: fetch, then _update_historical_data
StoreCycleMerge ==
    /\ historical_data.loaded
    /\ \E readings \in RangeResults :
          LET fetched == FetchNewReadings(readings, last_reading_timestamp)
          IN  /\ fetched # <<>>
              /\ Apply(UpdateHistoricalData(historical_data, last_reading_timestamp,
                                            fetched, historical_days, now))
    /\ UNCHANGED <<now, historical_days, new_readings, taskVars, mergeVars, apiVars, callVars>>

\* async_backfill_data: fetch, load if needed, merge
StoreBackfill ==
    /\ \E fetched \in RangeResults :
          LET loaded == IF historical_data.loaded
                        THEN <<historical_data, last_reading_timestamp>>
                        ELSE LoadHistoricalData(stored, last_reading_timestamp)
          IN  /\ fetched # <<>>
              /\ Apply(BackfillData(loaded[1], loaded[2], fetched,
                                    historical_days, now))
    /\ UNCHANGED <<now, historical_days, new_readings, taskVars, mergeVars, apiVars, callVars>>

\* _periodic_storage_cleanup
StoreCleanup ==
    /\ historical_data.loaded
    /\ Apply(PeriodicStorageCleanup(historical_data, last_reading_timestamp,
                                    historical_days, now))
    /\ UNCHANGED <<now, historical_days, new_readings, taskVars, mergeVars, apiVars, callVars>>

\* async_force_refresh: the clear
StoreForceClear ==
    /\ historical_data' = FreshData
    /\ last_reading_timestamp' = NONE
    /\ UNCHANGED <<now, historical_days, stored, new_readings, taskVars, mergeVars,
                   apiVars, callVars>>

\* time passes
StoreTick ==
    /\ now < MaxNow
    /\ now' = now + 1
    /\ UNCHANGED <<historical_days, historical_data, last_reading_timestamp, stored,
                   new_readings, taskVars, mergeVars, apiVars, callVars>>

StoreNext ==
    \/ StoreLoad
    \/ StoreCycleMerge
    \/ StoreBackfill
    \/ StoreCleanup
    \/ StoreForceClear
    \/ StoreTick

SpecStore == StoreInit /\ [][StoreNext]_vars

(***************************************************************************)
(* Claims about the store, checked under SpecStore.                        *)
(***************************************************************************)

\* C1: in every reachable state of the store no two stored readings share a
\* timestamp (a batch that repeats a timestamp is collapsed to one reading).
C1_UniqueTimestamps == NoDuplicateTimestamps(historical_data.readings)

\* C2: in every reachable state the readings in memory, and the readings of
\* the persisted record, are sorted by timestamp.
C2_SortedByTimestamp ==
    /\ IsSortedByTimestamp(historical_data.readings)
    /\ IsSortedByTimestamp(stored.readings)

\* merges have brought the store to three different timestamps, more than
\* any persisted record starts with, and the result was saved
C2_Witness ==
    /\ Cardinality(Timestamps(historical_data.readings)) >= 3
    /\ stored = SavedRecord(historical_data)

\* C3: once the store is loaded, last_timestamp is the maximum timestamp of
\* the stored readings, and is absent when there are none.
C3_LastTimestampIsMaximum ==
    historical_data.loaded =>
        IF historical_data.readings = <<>>
        THEN last_reading_timestamp = NONE
        ELSE last_reading_timestamp = MaxTimestamp(historical_data.readings)

\* no reading of the store is older than the retention allows at current_time
NothingOlderThan(readings, days, current_time) ==
    \A t \in Timestamps(readings) : t >= CutoffTimestamp(days, current_time)

\* every timestamp of the store before the step is in the store after it
KeepsEveryReading ==
    Timestamps(historical_data.readings) \subseteq Timestamps(historical_data'.readings)

\* C19: with unlimited retention no merge, backfill merge or cleanup pass
\* removes a reading from the store, and the cleanup pass changes neither
\* the store in memory nor the persisted record.
C19_UnlimitedNeverTrims ==
    [][historical_days = UNLIMITED =>
          /\ (StoreCycleMerge \/ StoreBackfill \/ StoreCleanup) => KeepsEveryReading
          /\ StoreCleanup =>
                UNCHANGED <<historical_data, last_reading_timestamp, stored>>]_vars

\* merges have added readings to an unlimited store that still holds a
\* reading older than any retention of the explored configurations
C19_Witness ==
    /\ historical_days = UNLIMITED
    /\ Len(historical_data.readings) > 2
    /\ stored.present /\ stored.readings = historical_data.readings
    /\ \E t \in Timestamps(historical_data.readings) : t < CutoffTimestamp(1, now)

\* the two merges applied to the same store and the same batch agree on the
\* readings and on _last_reading_timestamp
SameMerge(batch) ==
    LET cycle_merge == UpdateHistoricalData(historical_data, last_reading_timestamp,
                                            batch, historical_days, now)
        backfill_merge == BackfillData(historical_data, last_reading_timestamp,
                                       batch, historical_days, now)
    IN  /\ backfill_merge[1].readings = cycle_merge[1].readings
        /\ backfill_merge[2] = cycle_merge[2]

\* C31: for every state of the store and every batch, the merge of
\* async_backfill_data leaves the readings and the last timestamp that
\* _update_historical_data leaves for that batch.
C31_BackfillMergesLikeCycle ==
    historical_data.loaded =>
        \A batch \in RangeResults : batch # <<>> => SameMerge(batch)

\* C38: once set, _last_reading_timestamp is never lowered and never made
\* None by a load, a cycle merge, a backfill or a cleanup pass, while time
\* moves forward; only the clear of async_force_refresh resets it.
C38_LastTimestampMonotonic ==
    [][(last_reading_timestamp # NONE /\ ~StoreForceClear) =>
          /\ last_reading_timestamp' # NONE
          /\ last_reading_timestamp' >= last_reading_timestamp]_vars

\* with a limited retention and the clock moved on, merges have raised the
\* last timestamp past the clock's first value, and the saved record agrees
C38_Witness ==
    /\ historical_days # UNLIMITED
    /\ now > NowInit
    /\ historical_data.readings # <<>>
    /\ last_reading_timestamp > NowInit
    /\ stored.present /\ stored.last_reading_timestamp = last_reading_timestamp

(***************************************************************************)
(* Spec: the coordinator's asyncio tasks.  "cycle" is the scheduled        *)
(* _async_update_data; "operator" is a service call, async_backfill_data   *)
(* or async_force_refresh.  A task runs without interruption between two   *)
(* awaits; every await is a point where the other task may run.            *)
(***************************************************************************)
Tasks == {"cycle", "operator"}

\* what async_get_readings_range may return in Spec: readings with a valid
\* value, at any timestamp
FetchResults ==
    {GetReadingsRange(raw) :
        raw \in {batch \in RawBatches(MaxFetch) :
                    \A i \in 1..Len(batch) : batch[i][2] >= 0}}

Init ==
    /\ now = NowInit
    /\ historical_days \in HistoricalDaysChoices
    /\ historical_data = EmptyDict
    /\ last_reading_timestamp = NONE
    /\ stored \in InitialRecords
    /\ new_readings = <<>>
    /\ TasksIdle
    /\ MergeIdle
    /\ ApiIdle
    /\ CallIdle

\* "async with self._storage_lock" is entered only when no task holds the lock
LockFree_Unguarded == TRUE

LockFree == storage_lock = "free"

\* the timestamps of a batch that the validator accepts now
ValidTimestamps(batch) ==
    {batch[i].timestamp : i \in {j \in 1..Len(batch) : IsValidReading(batch[j], now)}}

\* _fetch_new_readings up to its API call: the timestamp the delta fetch
\* is started with, NONE on a first run
FetchSince(last) == IF Truthy(last) THEN last ELSE NONE

\* a plausible slip: the counter is reset to 0
NextUpdateCount_ResetToZero(count) ==
    IF count + 1 > COUNT_RESET THEN 0 ELSE count + 1

\* _async_update_data after the merge: the update counter
NextUpdateCount(count) ==
    IF count = 0 THEN 1
    ELSE IF count + 1 > COUNT_RESET THEN 1 ELSE count + 1

\* ... and where the cycle goes with it: the cleanup pass or the latest reading
AfterMergePc(count, days) ==
    IF NextUpdateCount(count) % CLEANUP_EVERY = 0 /\ days # UNLIMITED
    THEN "cleanup_wait"
    ELSE "latest"

\* which fetch _fetch_new_readings makes
FetchPhase(last, days) ==
    IF Truthy(last) THEN "delta"
    ELSE IF days = UNLIMITED THEN "full_history"
    ELSE "fixed_window"

\* _async_update_data starts: with the store loaded it goes on to fetch
CycleStart ==
    /\ pc["cycle"] = "idle"
    /\ update_count < MaxCycles
    /\ IF historical_data.loaded
       THEN /\ fetch_since' = FetchSince(last_reading_timestamp)
            /\ fetch_outcome' =
                   <<FetchPhase(last_reading_timestamp, historical_days), "pending">>
            /\ pc' = [pc EXCEPT !["cycle"] = "fetching"]
       ELSE /\ pc' = [pc EXCEPT !["cycle"] = "load_wait"]
            /\ fetch_outcome' = <<"none", "none">>
            /\ UNCHANGED fetch_since
    /\ cycle_result' = "none"
    /\ latest_data' = "none"
    /\ UNCHANGED <<storeVars, storage_lock, new_readings, backfill_readings, forcing,
                   update_count, merged, mergeVars, apiVars, callVars>>

\* the lock is taken for the load and the store is looked at again: still
\* empty, "await self.store.async_load()" is under way; filled by the other
\* task in the meantime, the lock is released and _fetch_new_readings starts
CycleLoadAcquire ==
    /\ pc["cycle"] = "load_wait"
    /\ LockFree
    /\ IF historical_data.loaded
       THEN /\ fetch_since' = FetchSince(last_reading_timestamp)
            /\ fetch_outcome' =
                   <<FetchPhase(last_reading_timestamp, historical_days), "pending">>
            /\ pc' = [pc EXCEPT !["cycle"] = "fetching"]
            /\ UNCHANGED storage_lock
       ELSE /\ storage_lock' = "cycle"
            /\ pc' = [pc EXCEPT !["cycle"] = "load"]
            /\ UNCHANGED <<fetch_since, fetch_outcome>>
    /\ UNCHANGED <<storeVars, new_readings, backfill_readings, forcing,
                   update_count, cycle_result, latest_data, merged,
                   mergeVars, apiVars, callVars>>

\* the load returns, the lock is released, _fetch_new_readings starts
CycleLoad ==
    /\ pc["cycle"] = "load"
    /\ LET loaded == LoadHistoricalData(stored, last_reading_timestamp)
       IN  /\ historical_data' = loaded[1]
           /\ last_reading_timestamp' = loaded[2]
           /\ fetch_since' = FetchSince(loaded[2])
           /\ fetch_outcome' = <<FetchPhase(loaded[2], historical_days), "pending">>
    /\ storage_lock' = "free"
    /\ pc' = [pc EXCEPT !["cycle"] = "fetching"]
    /\ UNCHANGED <<now, historical_days, stored, new_readings, backfill_readings, forcing,
                   update_count, cycle_result, latest_data, merged, mergeVars, apiVars,
                   callVars>>

\* a plausible slip: the readings received before the error are used
FetchedReadings_KeepOnError(fetch, ended, readings, since) ==
    IF fetch = "delta" THEN GetReadingsSince(readings, since) ELSE readings

\* What _fetch_new_readings returns when its API call ends with "readings"
\* or with "api_error".  The delta fetch keeps the readings after the
\* timestamp it was started with; APIError gives [] in the delta and the
\* fixed-window fetch; async_get_all_historical_readings catches the error
\* itself and returns the batches it has collected.
FetchedReadings(fetch, ended, readings, since) ==
    IF fetch = "full_history" THEN readings
    ELSE IF ended = "api_error" THEN <<>>
    ELSE IF fetch = "delta" THEN GetReadingsSince(readings, since)
    ELSE readings

\* _async_update_data with the fetched readings: merge them if there are any
AfterFetchPc_SkipMerge(fetched, count, days) == AfterMergePc(count, days)

AfterFetchPc(fetched, count, days) ==
    IF fetched # <<>> THEN "merge_wait" ELSE AfterMergePc(count, days)

\* the cycle goes on with what _fetch_new_readings returned
CycleGoesOn(fetched) ==
    /\ new_readings' = fetched
    /\ pc' = [pc EXCEPT !["cycle"] =
                  AfterFetchPc(fetched, update_count, historical_days)]
    /\ update_count' = IF AfterFetchPc(fetched, update_count, historical_days)
                             = "merge_wait"
                       THEN update_count
                       ELSE NextUpdateCount(update_count)
    /\ fetch_since' = NONE

\* the API call of _fetch_new_readings returns readings, or raises APIError
CycleFetchReturn ==
    /\ pc["cycle"] = "fetching"
    /\ \E readings \in FetchResults, ended \in {"readings", "api_error"} :
          /\ CycleGoesOn(FetchedReadings(fetch_outcome[1], ended, readings, fetch_since))
          /\ fetch_outcome' = <<fetch_outcome[1], ended>>
    /\ UNCHANGED <<storeVars, storage_lock, backfill_readings, forcing, cycle_result,
                   latest_data, merged, mergeVars, apiVars, callVars>>

\* the API call of _fetch_new_readings is answered with 401.  InvalidAuth
\* passes through the delta and the fixed-window fetch, and the cycle
\* fails and schedules the reload of the config entry; in
\* async_get_all_historical_readings "except Exception" catches it, and
\* the cycle goes on with the batches collected before
CycleFetchInvalidAuth ==
    /\ pc["cycle"] = "fetching"
    /\ fetch_outcome' = <<fetch_outcome[1], "unauthorized">>
    /\ IF fetch_outcome[1] = "full_history"
       THEN /\ \E readings \in FetchResults : CycleGoesOn(readings)
            /\ UNCHANGED cycle_result
       ELSE /\ pc' = [pc EXCEPT !["cycle"] = "idle"]
            /\ cycle_result' = "auth_failed"
            /\ fetch_since' = NONE
            /\ UNCHANGED <<new_readings, update_count>>
    /\ UNCHANGED <<storeVars, storage_lock, backfill_readings, forcing, latest_data,
                   merged, mergeVars, apiVars, callVars>>

\* _update_historical_data takes the lock and merges, up to
\* "await self.store.async_save"; without a valid new reading nothing is
\* saved, the lock is released and the cycle goes on
CycleMerge ==
    /\ pc["cycle"] = "merge_wait"
    /\ LockFree
    /\ LET result == UpdateHistoricalData(historical_data, last_reading_timestamp,
                                          new_readings, historical_days, now)
       IN  /\ historical_data' = result[1]
           /\ last_reading_timestamp' = result[2]
           /\ merged' = merged \cup ValidTimestamps(new_readings)
           /\ IF result[3]
              THEN /\ pc' = [pc EXCEPT !["cycle"] = "merge_save"]
                   /\ storage_lock' = "cycle"
                   /\ UNCHANGED <<update_count, new_readings>>
              ELSE /\ pc' = [pc EXCEPT !["cycle"] =
                                  AfterMergePc(update_count, historical_days)]
                   /\ storage_lock' = "free"
                   /\ update_count' = NextUpdateCount(update_count)
                   /\ new_readings' = <<>>
    /\ UNCHANGED <<now, historical_days, stored, fetch_since, backfill_readings, forcing,
                   cycle_result, fetch_outcome, latest_data, mergeVars, apiVars, callVars>>

\* the save returns, the lock is released, the counter is updated
CycleMergeSave ==
    /\ pc["cycle"] = "merge_save"
    /\ stored' = SavedRecord(historical_data)
    /\ storage_lock' = "free"
    /\ update_count' = NextUpdateCount(update_count)
    /\ pc' = [pc EXCEPT !["cycle"] = AfterMergePc(update_count, historical_days)]
    /\ new_readings' = <<>>
    /\ UNCHANGED <<now, historical_days, historical_data, last_reading_timestamp,
                   fetch_since, backfill_readings, forcing, cycle_result, fetch_outcome,
                   latest_data, merged, mergeVars, apiVars, callVars>>

\* _periodic_storage_cleanup takes the lock and trims, up to the save
CycleCleanup ==
    /\ pc["cycle"] = "cleanup_wait"
    /\ LockFree
    /\ LET result == PeriodicStorageCleanup(historical_data, last_reading_timestamp,
                                            historical_days, now)
       IN  /\ historical_data' = result[1]
           /\ last_reading_timestamp' = result[2]
           /\ IF result[3]
              THEN /\ pc' = [pc EXCEPT !["cycle"] = "cleanup_save"]
                   /\ storage_lock' = "cycle"
              ELSE /\ pc' = [pc EXCEPT !["cycle"] = "latest"]
                   /\ storage_lock' = "free"
    /\ UNCHANGED <<now, historical_days, stored, new_readings, fetch_since,
                   backfill_readings, forcing, update_count, cycle_result, fetch_outcome,
                   latest_data, merged, mergeVars, apiVars, callVars>>

CycleCleanupSave ==
    /\ pc["cycle"] = "cleanup_save"
    /\ stored' = SavedRecord(historical_data)
    /\ storage_lock' = "free"
    /\ pc' = [pc EXCEPT !["cycle"] = "latest"]
    /\ UNCHANGED <<now, historical_days, historical_data, last_reading_timestamp,
                   new_readings, fetch_since, backfill_readings, forcing, update_count,
                   cycle_result, fetch_outcome, latest_data, merged, mergeVars, apiVars,
                   callVars>>

\* what async_get_latest_reading_optimized gives: a reading, the structure
\* without timestamp and value, or one of the two exceptions
LatestOutcomes == {"reading", "no_reading", "APIError", "InvalidAuth"}

\* How _async_update_data ends.  "data": the latest reading with usage_data
\* from _calculate_usage_metrics; "no_data": the minimal structure with all
\* usage metrics 0.0; "failed": UpdateFailed; "auth_failed": UpdateFailed
\* and the reload of the config entry is scheduled.
CycleResult_FailWithoutReading(latest) ==
    IF latest = "reading" THEN "data"
    ELSE IF latest = "InvalidAuth" THEN "auth_failed"
    ELSE "failed"

CycleResult(latest) ==
    IF latest = "reading" THEN "data"
    ELSE IF latest = "no_reading" THEN "no_data"
    ELSE IF latest = "InvalidAuth" THEN "auth_failed"
    ELSE "failed"

\* async_get_latest_reading_optimized returns or raises; the cycle ends
CycleLatest ==
    /\ pc["cycle"] = "latest"
    /\ \E latest \in LatestOutcomes :
          /\ latest_data' = latest
          /\ cycle_result' = CycleResult(latest)
    /\ pc' = [pc EXCEPT !["cycle"] = "idle"]
    /\ UNCHANGED <<storeVars, storage_lock, new_readings, fetch_since, backfill_readings,
                   forcing, update_count, fetch_outcome, merged, mergeVars, apiVars,
                   callVars>>

\* the service call async_backfill_data: its API call is under way
OperatorBackfill ==
    /\ pc["operator"] = "idle"
    /\ pc' = [pc EXCEPT !["operator"] = "backfill_fetching"]
    /\ forcing' = FALSE
    /\ UNCHANGED <<storeVars, storage_lock, new_readings, fetch_since, backfill_readings,
                   update_count, cycle_result, fetch_outcome, latest_data, merged,
                   mergeVars, apiVars, callVars>>

\* the service call async_force_refresh: it asks for the lock
OperatorForceRefresh ==
    /\ pc["operator"] = "idle"
    /\ pc' = [pc EXCEPT !["operator"] = "clear_wait"]
    /\ forcing' = TRUE
    /\ UNCHANGED <<storeVars, storage_lock, new_readings, fetch_since, backfill_readings,
                   update_count, cycle_result, fetch_outcome, latest_data, merged,
                   mergeVars, apiVars, callVars>>

\* async_force_refresh takes the lock, clears the store, releases the lock
\* and calls async_backfill_data, whose API call is then under way
ForceClear ==
    /\ pc["operator"] = "clear_wait"
    /\ LockFree
    /\ historical_data' = FreshData
    /\ last_reading_timestamp' = NONE
    /\ storage_lock' = "free"
    /\ merged' = {}
    /\ pc' = [pc EXCEPT !["operator"] = "backfill_fetching"]
    /\ UNCHANGED <<now, historical_days, stored, new_readings, fetch_since,
                   backfill_readings, forcing, update_count, cycle_result, fetch_outcome,
                   latest_data, mergeVars, apiVars, callVars>>

\* the API call of async_backfill_data returns; no reading ends the call
\* (and the force refresh goes on to async_refresh)
BackfillFetchReturn ==
    /\ pc["operator"] = "backfill_fetching"
    /\ \E readings \in FetchResults :
          /\ backfill_readings' = readings
          /\ IF readings # <<>>
             THEN /\ pc' = [pc EXCEPT !["operator"] = "backfill_wait"]
                  /\ UNCHANGED forcing
             ELSE /\ pc' = [pc EXCEPT !["operator"] = "idle"]
                  /\ forcing' = FALSE
    /\ UNCHANGED <<storeVars, storage_lock, new_readings, fetch_since, update_count,
                   cycle_result, fetch_outcome, latest_data, merged, mergeVars, apiVars,
                   callVars>>

\* the API call raises (APIError, InvalidAuth): the service call fails
BackfillFetchRaises ==
    /\ pc["operator"] = "backfill_fetching"
    /\ pc' = [pc EXCEPT !["operator"] = "idle"]
    /\ forcing' = FALSE
    /\ UNCHANGED <<storeVars, storage_lock, new_readings, fetch_since, backfill_readings,
                   update_count, cycle_result, fetch_outcome, latest_data, merged,
                   mergeVars, apiVars, callVars>>

\* async_backfill_data takes the lock, loads the store if it is not loaded
\* yet, and merges, up to the save
BackfillMerge ==
    /\ pc["operator"] = "backfill_wait"
    /\ LockFree
    /\ LET loaded == IF historical_data.loaded
                     THEN <<historical_data, last_reading_timestamp>>
                     ELSE LoadHistoricalData(stored, last_reading_timestamp)
           result == BackfillData(loaded[1], loaded[2], backfill_readings,
                                  historical_days, now)
       IN  /\ historical_data' = result[1]
           /\ last_reading_timestamp' = result[2]
    /\ merged' = merged \cup ValidTimestamps(backfill_readings)
    /\ storage_lock' = "operator"
    /\ pc' = [pc EXCEPT !["operator"] = "backfill_save"]
    /\ UNCHANGED <<now, historical_days, stored, new_readings, fetch_since,
                   backfill_readings, forcing, update_count, cycle_result, fetch_outcome,
                   latest_data, mergeVars, apiVars, callVars>>

\* the save returns and the lock is released; a force refresh then calls
\* async_refresh, which leaves the next cycle to the scheduler
BackfillSave ==
    /\ pc["operator"] = "backfill_save"
    /\ stored' = SavedRecord(historical_data)
    /\ storage_lock' = "free"
    /\ forcing' = FALSE
    /\ backfill_readings' = <<>>
    /\ pc' = [pc EXCEPT !["operator"] = "idle"]
    /\ UNCHANGED <<now, historical_days, historical_data, last_reading_timestamp,
                   new_readings, fetch_since, update_count, cycle_result, fetch_outcome,
                   latest_data, merged, mergeVars, apiVars, callVars>>

\* time passes
Tick ==
    /\ now < MaxNow
    /\ now' = now + 1
    /\ UNCHANGED <<historical_days, historical_data, last_reading_timestamp, stored,
                   new_readings, taskVars, mergeVars, apiVars, callVars>>

Next ==
    \/ CycleStart
    \/ CycleLoadAcquire
    \/ CycleLoad
    \/ CycleFetchReturn
    \/ CycleFetchInvalidAuth
    \/ CycleMerge
    \/ CycleMergeSave
    \/ CycleCleanup
    \/ CycleCleanupSave
    \/ CycleLatest
    \/ OperatorBackfill
    \/ OperatorForceRefresh
    \/ ForceClear
    \/ BackfillFetchReturn
    \/ BackfillFetchRaises
    \/ BackfillMerge
    \/ BackfillSave
    \/ Tick

Spec == Init /\ [][Next]_vars

\* between the clear of a force refresh and the end of its backfill-merge
InForceRefreshWindow ==
    /\ forcing
    /\ pc["operator"] \in {"backfill_fetching", "backfill_wait", "backfill_save"}

\* the store as the clear leaves it
StoreCleared ==
    /\ historical_data.readings = <<>>
    /\ last_reading_timestamp = NONE

\* a step in which the cycle reads the store for its fetch decision or
\* for its merge
CycleObservesStore ==
    \/ pc["cycle"] # "fetching" /\ pc'["cycle"] = "fetching"
    \/ pc["cycle"] = "merge_wait" /\ pc'["cycle"] # "merge_wait"

\* C5: the clear-then-backfill of a force refresh is atomic with respect
\* to the scheduled cycle: no fetch decision and no merge of a cycle is
\* taken on the cleared store between the clear and the end of the
\* force refresh's backfill-merge.
C5_ForceRefreshAtomic ==
    [][CycleObservesStore => ~(InForceRefreshWindow /\ StoreCleared)]_vars

\* the tasks that are inside a section guarded by the storage lock
InCriticalSection ==
    {t \in Tasks : pc[t] \in {"load", "merge_save", "cleanup_save", "backfill_save"}}

\* a timestamp that retention keeps at the present time
Retained(timestamp) ==
    \/ historical_days = UNLIMITED
    \/ timestamp >= CutoffTimestamp(historical_days, now)

\* C6: the cycle's merge and cleanup and the operator's backfill-merge each
\* run their read-modify-write-persist sequence holding the one storage
\* lock: at most one task is inside at a time, it is the holder of the
\* lock, and no update is lost: every retained valid reading merged by
\* either task since the last clear is in the store.
C6_NoLostUpdate ==
    /\ Cardinality(InCriticalSection) <= 1
    /\ \A t \in InCriticalSection : storage_lock = t
    /\ \A timestamp \in merged :
          Retained(timestamp) => timestamp \in Timestamps(historical_data.readings)

\* both write paths meet at the lock: the backfill-merge has written its
\* batch on top of a reading merged before, and holds the lock for its save
\* while the cycle waits with a batch of its own for another timestamp
C6_Witness ==
    /\ pc["operator"] = "backfill_save"
    /\ pc["cycle"] = "merge_wait"
    /\ storage_lock = "operator"
    /\ ValidTimestamps(new_readings) # {}
    /\ ValidTimestamps(backfill_readings) # {}
    /\ ValidTimestamps(new_readings) \cap ValidTimestamps(backfill_readings) = {}
    /\ ValidTimestamps(backfill_readings) \subseteq Timestamps(historical_data.readings)
    /\ \E timestamp \in merged : timestamp \notin ValidTimestamps(backfill_readings)

\* C13: whenever a request of a cycle is answered with 401, in the fetch
\* phase (full-history, fixed-window or delta fetch) or in the
\* latest-reading call, the cycle ends with UpdateFailed and the reload
\* scheduled, and never with a successful result.
C13_AuthFailureFailsCycle ==
    (/\ pc["cycle"] = "idle"
     /\ (fetch_outcome[2] = "unauthorized" \/ latest_data = "InvalidAuth"))
        => cycle_result = "auth_failed"

\* C14: an APIError in the delta fetch is not fatal: the step in which the
\* fetch ends with it yields no new readings, leaves the store's readings
\* and last timestamp unchanged in memory and in the persisted record, and
\* takes the cycle on towards the latest-reading step, without a result.
C14_DeltaFetchErrorNonFatal ==
    [][(/\ pc["cycle"] = "fetching"
        /\ fetch_outcome[1] = "delta"
        /\ fetch_outcome'[2] = "api_error")
          => /\ new_readings' = <<>>
             /\ historical_data' = historical_data
             /\ last_reading_timestamp' = last_reading_timestamp
             /\ stored' = stored
             /\ pc'["cycle"] \in {"latest", "cleanup_wait"}
             /\ cycle_result' = "none"]_vars

\* a delta fetch has failed on a store that holds readings, and the cycle
\* is on its way to the latest reading
C14_Witness ==
    /\ fetch_outcome = <<"delta", "api_error">>
    /\ pc["cycle"] \in {"latest", "cleanup_wait"}
    /\ historical_data.readings # <<>>
    /\ new_readings = <<>>

\* C15, as stated: a cycle whose latest-reading step yields no timestamp
\* and no value is reported as failed, never as successful.
C15_NoLatestReadingFails ==
    (pc["cycle"] = "idle" /\ latest_data = "no_reading")
        => cycle_result \in {"failed", "auth_failed"}

\* C15, amended: a cycle whose latest-reading step yields no timestamp or
\* no value ends successfully with the minimal result (no timestamp, no
\* value, usage metrics 0.0); the cycle is reported as failed when the
\* latest-reading call raises APIError or InvalidAuth.
C15_NoLatestReadingMinimal ==
    pc["cycle"] = "idle" =>
        /\ latest_data = "no_reading" => cycle_result = "no_data"
        /\ latest_data = "APIError" => cycle_result = "failed"
        /\ latest_data = "InvalidAuth" => cycle_result = "auth_failed"

\* a cycle has ended without a latest reading while the store holds readings
C15_Witness ==
    /\ pc["cycle"] = "idle"
    /\ latest_data = "no_reading"
    /\ cycle_result = "no_data"
    /\ historical_data.readings # <<>>

\* the cycle has returned a result, not raised
Succeeded == cycle_result \in {"data", "no_data"}

\* the positions of the cycle before its latest-reading call
BeforeLatest ==
    {"load_wait", "load", "fetching", "merge_wait", "merge_save",
     "cleanup_wait", "cleanup_save", "latest"}

\* C16, as stated: every cycle that completes successfully has obtained
\* the latest reading and publishes usage metrics computed from the store,
\* and the merge of the fetched readings precedes that.
C16_SuccessPublishesUsage ==
    /\ (pc["cycle"] = "idle" /\ Succeeded)
          => (latest_data = "reading" /\ cycle_result = "data")
    /\ pc["cycle"] = "latest" => new_readings = <<>>

\* C16, amended: every cycle that completes successfully ends with the
\* latest-reading call, made after the merge of the fetched readings,
\* whether or not new readings arrived; it publishes usage metrics computed
\* from the store exactly when that call gave a reading, and the zero
\* metrics of the minimal result otherwise.
C16_SuccessEndsWithLatest ==
    /\ (pc["cycle"] = "idle" /\ Succeeded)
          => /\ latest_data \in {"reading", "no_reading"}
             /\ cycle_result = "data" <=> latest_data = "reading"
    /\ pc["cycle"] = "latest" => new_readings = <<>>
    /\ pc["cycle"] \in BeforeLatest => (latest_data = "none" /\ cycle_result = "none")

\* a cycle in which no new reading arrived has published computed metrics
C16_Witness ==
    /\ pc["cycle"] = "idle"
    /\ cycle_result = "data"
    /\ fetch_outcome = <<"delta", "api_error">>
    /\ historical_data.readings # <<>>

\* the readings a retention of days keeps at current_time
RecentReadings(readings, days, current_time) ==
    SelectSeq(readings, LAMBDA r : r.timestamp >= CutoffTimestamp(days, current_time))

\* the step in which _periodic_storage_cleanup computes under the lock
CleanupPass == pc["cycle"] = "cleanup_wait" /\ pc'["cycle"] # "cleanup_wait"

\* the step in which _update_historical_data merges and applies the retention
MergeRetentionPass == pc["cycle"] = "merge_wait" /\ pc'["cycle"] = "merge_save"

\* C17: a retention pass with N days at time now leaves in the store exactly
\* the readings it held before whose timestamp is >= now - N: the cleanup
\* pass leaves exactly those, the retention step of a merge leaves exactly
\* those of the previous readings and nothing older than the cutoff.
C17_RetentionExact ==
    [][historical_days # UNLIMITED =>
          /\ CleanupPass =>
                historical_data'.readings =
                    RecentReadings(historical_data.readings, historical_days, now)
          /\ MergeRetentionPass =>
                /\ SelectSeq(historical_data'.readings,
                             LAMBDA r : r.timestamp \in Timestamps(historical_data.readings))
                     = RecentReadings(historical_data.readings, historical_days, now)
                /\ \A t \in Timestamps(historical_data'.readings) :
                      t >= CutoffTimestamp(historical_days, now)]_vars

\* a cleanup pass has dropped a reading and kept another, the save is pending
C17_Witness ==
    /\ pc["cycle"] = "cleanup_save"
    /\ historical_days # UNLIMITED
    /\ historical_data.readings # <<>>
    /\ stored.present
    /\ Len(historical_data.readings) < Len(stored.readings)

\* the step in which _update_historical_data does its work under the lock,
\* with or without a valid new reading
MergeCall == pc["cycle"] = "merge_wait" /\ pc'["cycle"] # "merge_wait"

\* C18: with a retention of N days, when a merge call has done its work,
\* whether or not it added a reading, the store holds no reading older
\* than now - N.
C18_RetentionAfterEveryMerge ==
    [][(historical_days # UNLIMITED /\ MergeCall)
          => NothingOlderThan(historical_data'.readings, historical_days, now)]_vars

\* C22: in one process lifetime the persisted record is loaded at most
\* once: the cycle's load runs only on a store that is still empty and
\* with the lock held, a store that has been filled (by the load, by a
\* backfill or by the clear of a force refresh) is never empty again, and a
\* tick that finds the store filled goes straight to fetching.
C22_LoadedAtMostOnce ==
    [][/\ pc["cycle"] = "load" =>
            (~historical_data.loaded /\ storage_lock = "cycle")
       /\ (pc["cycle"] = "load" /\ pc'["cycle"] # "load") => historical_data'.loaded
       /\ historical_data.loaded => historical_data'.loaded
       /\ (pc["cycle"] = "idle" /\ pc'["cycle"] # "idle" /\ historical_data.loaded)
             => pc'["cycle"] = "fetching"]_vars

\* a later tick has found the loaded record in memory and is fetching
C22_Witness ==
    /\ pc["cycle"] = "fetching"
    /\ update_count > 0
    /\ historical_data.loaded
    /\ stored.present
    /\ historical_data.readings = stored.readings
    /\ historical_data.readings # <<>>

\* the step in which the cycle's fetch starts, and the one in which it ends
FetchStarts == pc["cycle"] # "fetching" /\ pc'["cycle"] = "fetching"
FetchEnds == pc["cycle"] = "fetching" /\ pc'["cycle"] # "fetching"

\* C23: a tick that finds a last timestamp makes a delta fetch started
\* with that timestamp, and every reading the delta fetch hands to the
\* merge has a timestamp strictly greater than it.
C23_DeltaFetchStrictlyNewer ==
    [][/\ FetchStarts =>
            IF Truthy(last_reading_timestamp')
            THEN /\ fetch_outcome'[1] = "delta"
                 /\ fetch_since' = last_reading_timestamp'
            ELSE fetch_outcome'[1] # "delta"
       /\ (FetchEnds /\ fetch_outcome[1] = "delta") =>
            /\ Truthy(fetch_since)
            /\ \A t \in Timestamps(new_readings') : t > fetch_since]_vars

\* a delta fetch has handed a reading to the merge
C23_Witness ==
    /\ pc["cycle"] = "merge_wait"
    /\ fetch_outcome = <<"delta", "readings">>
    /\ new_readings # <<>>
    /\ historical_data.readings # <<>>

\* the step in which "await self.store.async_save" returns to a task
SaveReturns ==
    \/ pc["cycle"] \in {"merge_save", "cleanup_save"} /\ pc'["cycle"] # pc["cycle"]
    \/ pc["operator"] = "backfill_save" /\ pc'["operator"] # "backfill_save"

\* C25: when the save of a merge, of a backfill merge or of a cleanup pass
\* has succeeded, the persisted record holds the readings and the last
\* timestamp that are in memory.
C25_PersistedEqualsMemory ==
    [][SaveReturns =>
          /\ stored'.present
          /\ stored'.readings = historical_data'.readings
          /\ stored'.last_reading_timestamp = last_reading_timestamp']_vars

\* the save of a cycle's merge has returned: the record holds a reading
\* that this run merged
C25_Witness ==
    /\ pc["cycle"] \in {"latest", "cleanup_wait"}
    /\ fetch_outcome[2] = "readings"
    /\ storage_lock = "free"
    /\ stored.present
    /\ stored.readings = historical_data.readings
    /\ stored.last_reading_timestamp = last_reading_timestamp
    /\ \E t \in merged : t \in Timestamps(stored.readings)

(***************************************************************************)
(* SpecSave: the cycle of Spec with a store whose async_save may raise.    *)
(***************************************************************************)
\* a plausible slip: the lock is not released when the save raises
CycleMergeSaveFails_KeepsLock ==
    /\ pc["cycle"] = "merge_save"
    /\ pc' = [pc EXCEPT !["cycle"] = "idle"]
    /\ cycle_result' = "error"
    /\ new_readings' = <<>>
    /\ UNCHANGED <<storeVars, storage_lock, fetch_since, backfill_readings, forcing,
                   update_count, fetch_outcome, latest_data, merged, mergeVars, apiVars,
                   callVars>>

\* "await self.store.async_save" raises in _update_historical_data: nothing
\* catches it there, "async with" releases the lock, and in
\* _async_update_data it is neither InvalidAuth nor APIError, so it leaves
\* the cycle before the counter and the latest reading
CycleMergeSaveFails ==
    /\ pc["cycle"] = "merge_save"
    /\ storage_lock' = "free"
    /\ pc' = [pc EXCEPT !["cycle"] = "idle"]
    /\ cycle_result' = "error"
    /\ new_readings' = <<>>
    /\ UNCHANGED <<storeVars, fetch_since, backfill_readings, forcing, update_count,
                   fetch_outcome, latest_data, merged, mergeVars, apiVars, callVars>>

\* it raises in _periodic_storage_cleanup: "except Exception" logs it and
\* the cycle goes on
CycleCleanupSaveFails ==
    /\ pc["cycle"] = "cleanup_save"
    /\ storage_lock' = "free"
    /\ pc' = [pc EXCEPT !["cycle"] = "latest"]
    /\ UNCHANGED <<storeVars, new_readings, fetch_since, backfill_readings, forcing,
                   update_count, cycle_result, fetch_outcome, latest_data, merged,
                   mergeVars, apiVars, callVars>>

\* the scheduled cycle alone, with saves that succeed or raise
SaveNext ==
    \/ CycleStart
    \/ CycleLoadAcquire
    \/ CycleLoad
    \/ CycleFetchReturn
    \/ CycleFetchInvalidAuth
    \/ CycleMerge
    \/ CycleMergeSave
    \/ CycleMergeSaveFails
    \/ CycleCleanup
    \/ CycleCleanupSave
    \/ CycleCleanupSaveFails
    \/ CycleLatest
    \/ Tick

SpecSave == Init /\ [][SaveNext]_vars

\* C26: when the save of a cycle's merge or cleanup fails, the cycle goes
\* on to the latest reading (through the cleanup pass when it is due) and
\* has not ended, and the readings in memory are the merged ones, not yet
\* persisted.
C26_FailedSaveDoesNotAbort ==
    [][(CycleMergeSaveFails \/ CycleCleanupSaveFails) =>
          /\ pc'["cycle"] \in {"latest", "cleanup_wait"}
          /\ cycle_result' = "none"
          /\ historical_data' = historical_data
          /\ stored' = stored]_vars

(***************************************************************************)
(* SpecLock: both tasks of Spec with saves that succeed or raise, under    *)
(* the scheduling of asyncio: an await on the API or on the store returns  *)
(* or raises, and asyncio.Lock wakes its waiters in the order they came,   *)
(* so a task that keeps waiting for the lock gets it.  What the lock does  *)
(* is independent of the readings, so the server sends no reading or one   *)
(* reading.                                                                *)
(***************************************************************************)
\* the save raises in async_backfill_data: "async with" releases the lock,
\* "except Exception" logs and raises again, and the service call fails
BackfillSaveFails ==
    /\ pc["operator"] = "backfill_save"
    /\ storage_lock' = "free"
    /\ forcing' = FALSE
    /\ backfill_readings' = <<>>
    /\ pc' = [pc EXCEPT !["operator"] = "idle"]
    /\ UNCHANGED <<storeVars, new_readings, fetch_since, update_count, cycle_result,
                   fetch_outcome, latest_data, merged, mergeVars, apiVars, callVars>>

\* what the API calls return in SpecLock
LockReadings == {<<>>, <<[timestamp |-> 1, value |-> 10]>>}

FewReadings == new_readings \in LockReadings /\ backfill_readings \in LockReadings

LockInit ==
    /\ now = NowInit
    /\ historical_days = 1
    /\ historical_data = EmptyDict
    /\ last_reading_timestamp = NONE
    /\ stored = NoRecord
    /\ new_readings = <<>>
    /\ TasksIdle
    /\ MergeIdle
    /\ ApiIdle
    /\ CallIdle

\* "async with self._storage_lock" is entered
CycleAcquires == CycleLoadAcquire \/ CycleMerge \/ CycleCleanup

OperatorAcquires == ForceClear \/ BackfillMerge

\* an await on the API or on the store returns or raises
AwaitReturns ==
    \/ CycleLoad
    \/ CycleFetchReturn /\ FewReadings'
    \/ CycleFetchInvalidAuth /\ FewReadings'
    \/ CycleMergeSave
    \/ CycleMergeSaveFails
    \/ CycleCleanupSave
    \/ CycleCleanupSaveFails
    \/ CycleLatest
    \/ BackfillFetchReturn /\ FewReadings'
    \/ BackfillFetchRaises
    \/ BackfillSave
    \/ BackfillSaveFails

LockNext ==
    \/ CycleStart
    \/ CycleLoadAcquire
    \/ CycleLoad
    \/ CycleFetchReturn /\ FewReadings'
    \/ CycleFetchInvalidAuth /\ FewReadings'
    \/ CycleMerge
    \/ CycleMergeSave
    \/ CycleMergeSaveFails
    \/ CycleCleanup
    \/ CycleCleanupSave
    \/ CycleCleanupSaveFails
    \/ CycleLatest
    \/ OperatorBackfill
    \/ OperatorForceRefresh
    \/ ForceClear
    \/ BackfillFetchReturn /\ FewReadings'
    \/ BackfillFetchRaises
    \/ BackfillMerge
    \/ BackfillSave
    \/ BackfillSaveFails
    \/ Tick

SpecLock ==
    /\ LockInit
    /\ [][LockNext]_vars
    /\ WF_vars(AwaitReturns)
    /\ SF_vars(CycleAcquires)
    /\ SF_vars(OperatorAcquires)

\* where a task waits for the lock, and where it holds it
WaitPcs == {"load_wait", "merge_wait", "cleanup_wait", "clear_wait", "backfill_wait"}

HoldPcs == {"load", "merge_save", "cleanup_save", "backfill_save"}

\* C39: a task holds the storage lock only inside a critical section, so
\* never while it asks for the lock and never after it has left the section
\* by return or by exception; and a task that waits for the lock enters its
\* critical section.
C39_LockNeverDeadlocks ==
    /\ [](\A t \in Tasks : storage_lock = t => pc[t] \in HoldPcs)
    /\ \A t \in Tasks : (pc[t] \in WaitPcs) ~> (pc[t] \notin WaitPcs)

\* the operator's force refresh waits for the lock while the cycle holds it
\* in the save of its merge
C39_Witness ==
    /\ pc["operator"] = "clear_wait"
    /\ pc["cycle"] = "merge_save"
    /\ storage_lock = "cycle"

(***************************************************************************)
(* SpecMerge: _update_historical_data called twice with the same batch at  *)
(* the same time, from a store holding any sorted readings.                *)
(***************************************************************************)
MergeInit ==
    /\ now \in NowInit..MaxNow
    /\ historical_days \in HistoricalDaysChoices
    /\ \E readings \in RangeResults :
          LET last == IF readings = <<>> THEN NONE
                      ELSE readings[Len(readings)].timestamp
          IN  /\ historical_data = [loaded |-> TRUE, readings |-> readings,
                                    last_reading_timestamp |-> last]
              /\ last_reading_timestamp = last
    /\ stored = SavedRecord(historical_data)
    /\ new_readings \in RangeResults
    /\ TasksIdle
    /\ MergeIdle
    /\ ApiIdle
    /\ CallIdle

MergeFirst ==
    /\ phase = "start"
    /\ Apply(UpdateHistoricalData(historical_data, last_reading_timestamp,
                                  new_readings, historical_days, now))
    /\ phase' = "merged"
    /\ first_merge' = <<historical_data', last_reading_timestamp'>>
    /\ UNCHANGED <<now, historical_days, new_readings, taskVars, apiVars, callVars>>

MergeAgain ==
    /\ phase = "merged"
    /\ Apply(UpdateHistoricalData(historical_data, last_reading_timestamp,
                                  new_readings, historical_days, now))
    /\ phase' = "merged_again"
    /\ UNCHANGED <<now, historical_days, new_readings, taskVars, first_merge, apiVars,
                   callVars>>

MergeNext == MergeFirst \/ MergeAgain

SpecMerge == MergeInit /\ [][MergeNext]_vars

\* C4: merging a batch a second time at the same time leaves the readings
\* and last_timestamp exactly as the first merge left them.
C4_MergeIdempotent ==
    phase = "merged_again" =>
        /\ historical_data.readings = first_merge[1].readings
        /\ Len(historical_data.readings) = Len(first_merge[1].readings)
        /\ historical_data = first_merge[1]
        /\ last_reading_timestamp = first_merge[2]

\* the batch was merged twice; the first merge added one of its readings
\* and retention dropped another one
C4_Witness ==
    /\ phase = "merged_again"
    /\ \E i \in 1..Len(new_readings) :
          /\ IsValidReading(new_readings[i], now)
          /\ new_readings[i].timestamp \in Timestamps(first_merge[1].readings)
          /\ new_readings[i].timestamp \in Timestamps(historical_data.readings)
    /\ \E i \in 1..Len(new_readings) :
          /\ IsValidReading(new_readings[i], now)
          /\ new_readings[i].timestamp \notin Timestamps(historical_data.readings)

(***************************************************************************)
(* SpecApi: one WRMSystemsAPIClient used by two callers at a time, the     *)
(* scheduled cycle and an operator's backfill.  Time is counted in         *)
(* seconds and kept relative: what the code computes from loop.time() is   *)
(* the time since the last request, and only whether it has reached the    *)
(* minimum interval matters.                                               *)
(***************************************************************************)
coordinatorVars == <<storeVars, new_readings, taskVars, mergeVars, callVars>>

RetryCeilings == MAX_RETRIES..(MAX_RETRIES + MaxExtraRetries)

\* response.status, as far as the code tells statuses apart
Statuses == {"200", "401", "429", "500"}

RECURSIVE Power2(_)
Power2(n) == IF n = 0 THEN 1 ELSE 2 * Power2(n - 1)

\* wait_time = RETRY_DELAY * (2 ** attempt)
WaitTime(n) == RETRY_DELAY * Power2(n)

Min(a, b) == IF a < b THEN a ELSE b

Count(seq, kind) == Cardinality({i \in 1..Len(seq) : seq[i] = kind})

\* The responses of a call that were retried, kept in a fixed order of
\* kinds: what the code does on an attempt depends on the attempt number
\* and on that attempt's response, not on the order of the earlier ones.
Retried(seq, kind) ==
    LET with == Append(seq, kind)
        Copies(k) == [i \in 1..Count(with, k) |-> k]
        Ordered == {"429", "500_unread", "timeout"}
    IN  Copies("429") \o Copies("500_unread") \o Copies("timeout")
            \o SelectSeq(with, LAMBDA r : r \notin Ordered)

ApiInit ==
    /\ now = NowInit
    /\ historical_days = UNLIMITED
    /\ historical_data = EmptyDict
    /\ last_reading_timestamp = NONE
    /\ stored = NoRecord
    /\ new_readings = <<>>
    /\ TasksIdle
    /\ MergeIdle
    /\ CallIdle
    /\ max_retries \in RetryCeilings
    /\ time_since_last = MIN_REQUEST_INTERVAL
    /\ api_pc = [c \in Callers |-> "idle"]
    /\ attempt = [c \in Callers |-> 0]
    /\ sleep_left = [c \in Callers |-> 0]
    /\ responses = [c \in Callers |-> <<>>]
    /\ requests = [c \in Callers |-> 0]
    /\ sleeps = [c \in Callers |-> 0]
    /\ outcome = [c \in Callers |-> "none"]
    /\ since_request = MIN_REQUEST_INTERVAL
    /\ request_gap = MIN_REQUEST_INTERVAL

\* _rate_limit finds the interval not elapsed and sleeps for the rest of it
RateLimitSleeps(c, at) ==
    /\ api_pc' = [api_pc EXCEPT ![c] = at]
    /\ sleep_left' = [sleep_left EXCEPT ![c] = MIN_REQUEST_INTERVAL - time_since_last]
    /\ UNCHANGED <<time_since_last, requests, since_request, request_gap>>

\* _rate_limit of the loop is over: it sets _last_request_time, and the
\* request goes out
SendRequest(c) ==
    /\ time_since_last' = 0
    /\ api_pc' = [api_pc EXCEPT ![c] = "in_flight"]
    /\ requests' = [requests EXCEPT ![c] = @ + 1]
    /\ request_gap' = since_request
    /\ since_request' = 0

\* the _rate_limit at the head of a loop iteration
LoopRateLimit(c) ==
    IF time_since_last < MIN_REQUEST_INTERVAL
    THEN RateLimitSleeps(c, "limit_sleep")
    ELSE SendRequest(c) /\ UNCHANGED sleep_left

\* the loop is over when range(MAX_RETRIES) has no further attempt
LoopExhausted_OneMore(n) == n > max_retries

LoopExhausted(n) == n >= max_retries

\* _make_request_with_retry is called: the _rate_limit before the loop
\* either sleeps or sets _last_request_time, and then the first iteration's
\* _rate_limit finds no time elapsed and sleeps
ApiCall(c) ==
    /\ api_pc[c] = "idle"
    /\ attempt' = [attempt EXCEPT ![c] = 0]
    /\ responses' = [responses EXCEPT ![c] = <<>>]
    /\ requests' = [requests EXCEPT ![c] = 0]
    /\ sleeps' = [sleeps EXCEPT ![c] = 0]
    /\ outcome' = [outcome EXCEPT ![c] = "none"]
    /\ IF time_since_last < MIN_REQUEST_INTERVAL
       THEN /\ api_pc' = [api_pc EXCEPT ![c] = "first_limit_sleep"]
            /\ sleep_left' = [sleep_left EXCEPT ![c] =
                                 MIN_REQUEST_INTERVAL - time_since_last]
            /\ UNCHANGED time_since_last
       ELSE /\ time_since_last' = 0
            /\ api_pc' = [api_pc EXCEPT ![c] = "limit_sleep"]
            /\ sleep_left' = [sleep_left EXCEPT ![c] = MIN_REQUEST_INTERVAL]
    /\ UNCHANGED <<max_retries, since_request, request_gap, coordinatorVars>>

\* the sleep of the _rate_limit before the loop is over: it sets
\* _last_request_time, and the first iteration's _rate_limit sleeps
FirstLimitWake(c) ==
    /\ api_pc[c] = "first_limit_sleep"
    /\ sleep_left[c] = 0
    /\ time_since_last' = 0
    /\ api_pc' = [api_pc EXCEPT ![c] = "limit_sleep"]
    /\ sleep_left' = [sleep_left EXCEPT ![c] = MIN_REQUEST_INTERVAL]
    /\ UNCHANGED <<max_retries, attempt, responses, requests, sleeps, outcome,
                   since_request, request_gap, coordinatorVars>>

\* the sleep of an iteration's _rate_limit is over: the request goes out
LimitWake(c) ==
    /\ api_pc[c] = "limit_sleep"
    /\ sleep_left[c] = 0
    /\ SendRequest(c)
    /\ UNCHANGED <<max_retries, attempt, sleep_left, responses, sleeps, outcome,
                   coordinatorVars>>

\* the call ends, returning or raising
Finish(c, result) ==
    /\ outcome' = [outcome EXCEPT ![c] = result]
    /\ api_pc' = [api_pc EXCEPT ![c] = "done"]

\* what the code does with a response: 401 raises InvalidAuth, 429 sleeps
\* and goes on to the next iteration, any other status but 200 raises
\* APIError, and so does a 200 whose body is not JSON
Disposition_RetryAuth(status, json_ok) ==
    IF status \in {"401", "429"} THEN "rate_limited"
    ELSE IF status # "200" \/ ~json_ok THEN "APIError"
    ELSE "data"

\* a plausible slip: a 200 whose body cannot be decoded is returned
Disposition_ReturnUndecoded(status, json_ok) ==
    IF status = "401" THEN "InvalidAuth"
    ELSE IF status = "429" THEN "rate_limited"
    ELSE IF status # "200" THEN "APIError"
    ELSE "data"

Disposition(status, json_ok) ==
    IF status = "401" THEN "InvalidAuth"
    ELSE IF status = "429" THEN "rate_limited"
    ELSE IF status # "200" \/ ~json_ok THEN "APIError"
    ELSE "data"

\* a response arrives
HttpResponse(c) ==
    /\ api_pc[c] = "in_flight"
    /\ \E status \in Statuses, json_ok \in BOOLEAN :
          /\ status # "200" => json_ok
          /\ responses' = [responses EXCEPT ![c] =
                              IF Disposition(status, json_ok) = "rate_limited"
                              THEN Retried(@, status)
                              ELSE Append(@, IF json_ok THEN status ELSE "bad_json")]
          /\ IF Disposition(status, json_ok) = "rate_limited"
             THEN /\ api_pc' = [api_pc EXCEPT ![c] = "rate_limited_sleep"]
                  /\ sleep_left' = [sleep_left EXCEPT ![c] = WaitTime(attempt[c])]
                  /\ sleeps' = [sleeps EXCEPT ![c] = @ + 1]
                  /\ UNCHANGED outcome
             ELSE /\ Finish(c, Disposition(status, json_ok))
                  /\ UNCHANGED <<sleep_left, sleeps>>
    /\ UNCHANGED <<max_retries, time_since_last, attempt, requests, since_request,
                   request_gap, coordinatorVars>>

\* "except (aiohttp.ClientError, asyncio.TimeoutError)": back off and
\* retry; on the last attempt there is no sleep, the loop goes on and finds
\* no further attempt, and APIError is raised
TransientFailure(c, kind) ==
    /\ api_pc[c] = "in_flight"
    /\ responses' = [responses EXCEPT ![c] =
                        IF attempt[c] < max_retries - 1
                        THEN Retried(@, kind) ELSE Append(@, kind)]
    /\ IF attempt[c] < max_retries - 1
       THEN /\ api_pc' = [api_pc EXCEPT ![c] = "backoff_sleep"]
            /\ sleep_left' = [sleep_left EXCEPT ![c] = WaitTime(attempt[c])]
            /\ sleeps' = [sleeps EXCEPT ![c] = @ + 1]
            /\ UNCHANGED <<outcome, attempt, time_since_last, requests, since_request,
                           request_gap>>
       ELSE IF LoopExhausted(attempt[c] + 1)
       THEN /\ Finish(c, "APIError_network")
            /\ UNCHANGED <<sleep_left, sleeps, attempt, time_since_last, requests,
                           since_request, request_gap>>
       ELSE /\ attempt' = [attempt EXCEPT ![c] = @ + 1]
            /\ LoopRateLimit(c)
            /\ UNCHANGED <<outcome, sleeps>>
    /\ UNCHANGED <<max_retries, coordinatorVars>>

\* session.get raises aiohttp.ClientError or asyncio.TimeoutError
RequestFails(c) == TransientFailure(c, "timeout")

\* a status other than 200, 401 and 429 has arrived and the
\* "await response.text()" inside the APIError being built raises
\* aiohttp.ClientError or asyncio.TimeoutError: the same handler catches it
ErrorBodyUnreadable(c) == TransientFailure(c, "500_unread")

\* any other exception breaks out of the loop
UnexpectedError(c) ==
    /\ api_pc[c] = "in_flight"
    /\ responses' = [responses EXCEPT ![c] = Append(@, "unexpected")]
    /\ Finish(c, "APIError_network")
    /\ UNCHANGED <<max_retries, time_since_last, attempt, sleep_left, requests, sleeps,
                   since_request, request_gap, coordinatorVars>>

\* the sleep after a failure or after a 429 is over: the next iteration
\* starts with _rate_limit, or the loop has no further attempt
NextAttempt(c) ==
    /\ api_pc[c] \in {"backoff_sleep", "rate_limited_sleep"}
    /\ sleep_left[c] = 0
    /\ IF LoopExhausted(attempt[c] + 1)
       THEN /\ Finish(c, "APIError_network")
            /\ UNCHANGED <<attempt, time_since_last, sleep_left, requests,
                           since_request, request_gap>>
       ELSE /\ attempt' = [attempt EXCEPT ![c] = @ + 1]
            /\ LoopRateLimit(c)
            /\ UNCHANGED outcome
    /\ UNCHANGED <<max_retries, responses, sleeps, coordinatorVars>>

\* the caller has the result
ApiReturn(c) ==
    /\ api_pc[c] = "done"
    /\ api_pc' = [api_pc EXCEPT ![c] = "idle"]
    /\ attempt' = [attempt EXCEPT ![c] = 0]
    /\ responses' = [responses EXCEPT ![c] = <<>>]
    /\ requests' = [requests EXCEPT ![c] = 0]
    /\ sleeps' = [sleeps EXCEPT ![c] = 0]
    /\ outcome' = [outcome EXCEPT ![c] = "none"]
    /\ UNCHANGED <<max_retries, time_since_last, sleep_left, since_request, request_gap,
                   coordinatorVars>>

\* a second passes
ApiTick ==
    /\ time_since_last' = Min(time_since_last + 1, MIN_REQUEST_INTERVAL)
    /\ since_request' = Min(since_request + 1, MIN_REQUEST_INTERVAL)
    /\ sleep_left' = [c \in Callers |-> IF sleep_left[c] > 0 THEN sleep_left[c] - 1 ELSE 0]
    /\ UNCHANGED <<max_retries, api_pc, attempt, responses, requests, sleeps, outcome,
                   request_gap, coordinatorVars>>

ApiNext ==
    \/ \E c \in Callers : ApiCall(c)
    \/ \E c \in Callers : FirstLimitWake(c)
    \/ \E c \in Callers : LimitWake(c)
    \/ \E c \in Callers : HttpResponse(c)
    \/ \E c \in Callers : RequestFails(c)
    \/ \E c \in Callers : ErrorBodyUnreadable(c)
    \/ \E c \in Callers : UnexpectedError(c)
    \/ \E c \in Callers : NextAttempt(c)
    \/ \E c \in Callers : ApiReturn(c)
    \/ ApiTick

SpecApi == ApiInit /\ [][ApiNext]_vars

\* C7: any two successive HTTP requests of one client are at least the
\* minimum interval apart, whoever issues them, retries of one call and
\* requests of two concurrent callers alike.
C7_MinimumRequestSpacing == request_gap >= MIN_REQUEST_INTERVAL

\* the call that ended, or the request that got its response, for caller c
LastResponse(c) == responses[c][Len(responses[c])]

\* C8, as stated: when InvalidAuth surfaces exactly one HTTP request has
\* been issued and no backoff sleep has happened, whatever attempt the 401
\* arrives on.
C8_ExactlyOneRequest ==
    \A c \in Callers :
        outcome[c] = "InvalidAuth" => requests[c] = 1 /\ sleeps[c] = 0

\* C8, amended: a 401 response ends the call with InvalidAuth at once,
\* whatever attempt it arrives on: the request it answers is the last one
\* of the call, no backoff sleep follows it (the sleeps are those of the
\* earlier attempts) and no further attempt is made; a 401 on the first
\* attempt leaves exactly one request and no sleep.
C8_AuthFailsImmediately ==
    \A c \in Callers :
        /\ (responses[c] # <<>> /\ LastResponse(c) = "401") =>
              /\ api_pc[c] = "done"
              /\ outcome[c] = "InvalidAuth"
              /\ requests[c] = Len(responses[c])
              /\ sleeps[c] = Len(responses[c]) - 1
        /\ outcome[c] = "InvalidAuth" =>
              /\ responses[c] # <<>>
              /\ LastResponse(c) = "401"
              /\ Count(responses[c], "401") = 1

\* a 401 on the last attempt the ceiling allows, after retries
C8_Witness ==
    \E c \in Callers :
        /\ outcome[c] = "InvalidAuth"
        /\ requests[c] = max_retries
        /\ sleeps[c] = max_retries - 1

Timeouts(n) == [i \in 1..n |-> "timeout"]

\* C9: with retry ceiling K, a call whose first K attempts all time out
\* fails with APIError after exactly K requests, no call ever issues
\* request K+1, and a call whose first K-1 attempts time out and whose
\* K-th returns 200 succeeds.
C9_RetryCeiling ==
    \A c \in Callers :
        /\ requests[c] <= max_retries
        /\ responses[c] = Timeouts(max_retries) =>
              /\ api_pc[c] = "done"
              /\ outcome[c] = "APIError_network"
              /\ requests[c] = max_retries
        /\ responses[c] = Timeouts(max_retries - 1) \o <<"200">> =>
              /\ api_pc[c] = "done"
              /\ outcome[c] = "data"
              /\ requests[c] = max_retries

\* ceiling 4: one call has failed after four timeouts while the other has
\* succeeded on its fourth attempt after three
C9_Witness ==
    /\ max_retries = MAX_RETRIES + 1
    /\ \E c, d \in Callers :
          /\ responses[c] = Timeouts(MAX_RETRIES + 1)
          /\ outcome[c] = "APIError_network"
          /\ responses[d] = Timeouts(MAX_RETRIES) \o <<"200">>
          /\ outcome[d] = "data"

\* C10: 429 responses do not count against the attempt ceiling: a call
\* gives up with the network APIError only after as many timeouts as the
\* ceiling allows, whether or not 429 responses came earlier, and a call
\* waiting after a 429 always gets its retry.
C10_RateLimitedNotCounted ==
    \A c \in Callers :
        (outcome[c] = "APIError_network" /\ Count(responses[c], "unexpected") = 0)
            => Count(responses[c], "timeout") + Count(responses[c], "500_unread")
                   = max_retries

\* C11: a response with a status other than 200, 401 and 429, and a 200
\* response whose body is not JSON, ends the call with APIError without
\* retry: the request it answers is the last one of the call (the earlier
\* requests and sleeps are those of earlier attempts), and no backoff
\* sleep follows it.
C11_ApiErrorNotRetried ==
    \A c \in Callers :
        /\ (responses[c] # <<>> /\ LastResponse(c) \in {"500", "bad_json"}) =>
              /\ api_pc[c] = "done"
              /\ outcome[c] = "APIError"
              /\ requests[c] = Len(responses[c])
              /\ sleeps[c] = Len(responses[c]) - 1
        /\ Count(responses[c], "500_unread") > 0 =>
              /\ api_pc[c] = "done"
              /\ outcome[c] = "APIError"
              /\ Count(responses[c], "500_unread") = 1

\* caller c's attempt has failed or was answered 429, and the caller starts
\* the sleep that follows it
BackoffStarts(c) ==
    /\ api_pc[c] = "in_flight"
    /\ api_pc'[c] \in {"backoff_sleep", "rate_limited_sleep"}

\* C32: the wait after a transient failure or a 429 on attempt index a is
\* RETRY_DELAY * 2^a, and no wait follows the attempt that ends the call
\* (the last attempt of the loop).
C32_ExponentialBackoff ==
    [][\A c \in Callers :
          BackoffStarts(c) =>
              /\ sleep_left'[c] = WaitTime(attempt[c])
              /\ attempt[c] < max_retries - 1]_vars

(***************************************************************************)
(* SpecReadings: async_get_readings applied to one decoded response body.  *)
(* A body is described by what the validation looks at: the type of the    *)
(* body, whether it has "readings", whether that is a list, and for every  *)
(* element whether it is a list, its length and the JSON types of its      *)
(* first two entries.                                                      *)
(***************************************************************************)
\* the JSON types of an entry, as json decodes them: int, float, bool, str
JsonTypes == {"int", "float", "bool", "str"}

\* isinstance(x, (int, float)): bool is a subclass of int
IsIntOrFloat(type) == type \in {"int", "float", "bool"}

Elements ==
    {[is_list |-> FALSE, len |-> 0, first |-> "int", second |-> "int"]}
    \cup {[is_list |-> TRUE, len |-> n, first |-> "int", second |-> "int"] :
             n \in (0..MaxItems) \ {2}}
    \cup {[is_list |-> TRUE, len |-> 2, first |-> t0, second |-> t1] :
             t0 \in JsonTypes, t1 \in JsonTypes}

ReadingsLists == UNION {[1..k -> Elements] : k \in 0..MaxBatch}

Bodies ==
    {[is_dict |-> FALSE, has_readings |-> FALSE, is_list |-> FALSE, readings |-> <<>>],
     [is_dict |-> TRUE, has_readings |-> FALSE, is_list |-> FALSE, readings |-> <<>>],
     [is_dict |-> TRUE, has_readings |-> TRUE, is_list |-> FALSE, readings |-> <<>>]}
    \cup {[is_dict |-> TRUE, has_readings |-> TRUE, is_list |-> TRUE, readings |-> l] :
             l \in ReadingsLists}

\* the checks of the "Validate readings format" loop on one element
ReadingFormatOk(reading) ==
    /\ reading.is_list
    /\ reading.len = 2
    /\ IsIntOrFloat(reading.first)
    /\ IsIntOrFloat(reading.second)

\* async_get_readings once _make_request_with_retry has returned the body
AsyncGetReadings(data) ==
    IF ~data.is_dict THEN [raised |-> "APIError", readings |-> <<>>]
    ELSE IF ~data.has_readings THEN [raised |-> "APIError", readings |-> <<>>]
    ELSE IF ~data.is_list THEN [raised |-> "APIError", readings |-> <<>>]
    ELSE IF data.readings = <<>> THEN [raised |-> "none", readings |-> <<>>]
    ELSE IF \E i \in 1..Len(data.readings) : ~ReadingFormatOk(data.readings[i])
         THEN [raised |-> "APIError", readings |-> <<>>]
    ELSE [raised |-> "none", readings |-> data.readings]

otherVars == <<storeVars, new_readings, taskVars, mergeVars, apiVars>>

ReadingsInit ==
    /\ now = NowInit
    /\ historical_days = UNLIMITED
    /\ historical_data = EmptyDict
    /\ last_reading_timestamp = NONE
    /\ stored = NoRecord
    /\ new_readings = <<>>
    /\ TasksIdle
    /\ MergeIdle
    /\ ApiIdle
    /\ call_arg \in Bodies
    /\ call_applied = "none"
    /\ call_result = <<>>

ReadingsCall ==
    /\ call_applied = "none"
    /\ call_applied' = "async_get_readings"
    /\ call_result' = AsyncGetReadings(call_arg)
    /\ UNCHANGED <<call_arg, otherVars>>

SpecReadings == ReadingsInit /\ [][ReadingsCall]_vars

\* a [timestamp, value] entry as the API documents it: two JSON numbers
WellFormedReading(reading) ==
    /\ reading.is_list
    /\ reading.len = 2
    /\ reading.first \in {"int", "float"}
    /\ reading.second \in {"int", "float"}

WellFormedBody(data) ==
    /\ data.is_dict
    /\ data.has_readings
    /\ data.is_list
    /\ \A i \in 1..Len(data.readings) : WellFormedReading(data.readings[i])

\* C12: async_get_readings returns the readings of a body that is an
\* object with a 'readings' list of 2-element numeric entries (an empty
\* list gives an empty result and no error), and raises APIError, returning
\* no reading, for every other body, also when only one element is
\* malformed.
C12_StrictValidation ==
    call_applied = "async_get_readings" =>
        IF WellFormedBody(call_arg)
        THEN call_result = [raised |-> "none", readings |-> call_arg.readings]
        ELSE call_result = [raised |-> "APIError", readings |-> <<>>]

(***************************************************************************)
(* SpecValidator: _validate_reading_data applied to one reading.  A value  *)
(* is described by its Python type and by the number float() makes of it:  *)
(* a finite number (whole numbers stand for all), nan, inf, -inf, an int   *)
(* too large for a float ("huge"), or no number at all ("text").           *)
(***************************************************************************)
\* the finite numbers tried, around both ends of the accepted range
FiniteNumbers == {-1, 0, 1, MAX_VALUE - 1, MAX_VALUE, MAX_VALUE + 1}

RawValue(type, kind, num) == [type |-> type, kind |-> kind, num |-> num]

\* values a reading may carry
AnyValues ==
    {RawValue(type, "finite", n) : type \in {"int", "float", "str"}, n \in FiniteNumbers}
        \cup {RawValue("bool", "finite", n) : n \in {0, 1}}
        \cup {RawValue(type, kind, 0) : type \in {"float", "str"},
                                        kind \in {"nan", "inf", "neg_inf"}}
        \cup {RawValue("int", "huge", 0), RawValue("str", "text", 0),
              RawValue("NoneType", "text", 0), RawValue("list", "text", 0)}

\* the argument of _validate_reading_data
AnyReadings ==
    [is_dict : {TRUE}, timestamp : RawTimestamps \cup {0}, value : AnyValues]
        \cup [is_dict : {FALSE}, timestamp : {0}, value : {RawValue("list", "text", 0)}]

\* float(value), for a str, an int (bool is a subclass of int) or a float
PyFloat(value) ==
    IF value.kind = "text" THEN [kind |-> "ValueError", num |-> 0]
    ELSE IF value.kind = "huge" THEN [kind |-> "OverflowError", num |-> 0]
    ELSE [kind |-> value.kind, num |-> value.num]

\* Python's None as the result of a conversion
NoValue == [kind |-> "None", num |-> 0]

\* "value < 0 or value > 999999" on a float: every comparison with nan is
\* false; a finite number is compared as SafeConvertValue does
OutOfRange(number) ==
    CASE number.kind = "finite" -> SafeConvertValue(number.num) = NONE
      [] number.kind = "inf" -> TRUE
      [] number.kind = "neg_inf" -> TRUE
      [] number.kind = "nan" -> FALSE

\* _safe_convert_value on any value
SafeConvertAnyValue(value) ==
    IF value.type \notin {"str", "int", "float", "bool"}
    THEN NoValue
    ELSE LET number == PyFloat(value)
         IN  IF number.kind \in {"ValueError", "OverflowError"} THEN NoValue
             ELSE IF OutOfRange(number) THEN NoValue
             ELSE number

\* _validate_reading_data on any reading
ValidateAnyReading(reading, current_time) ==
    IF ~reading.is_dict
    THEN [accepted |-> FALSE, timestamp |-> NONE, value |-> NoValue]
    ELSE LET timestamp == SafeConvertTimestamp(reading.timestamp, current_time)
             value == SafeConvertAnyValue(reading.value)
         IN  IF timestamp = NONE \/ value = NoValue
             THEN [accepted |-> FALSE, timestamp |-> NONE, value |-> NoValue]
             ELSE [accepted |-> TRUE, timestamp |-> timestamp, value |-> value]

ValidatorInit ==
    /\ now = NowInit
    /\ historical_days = UNLIMITED
    /\ historical_data = EmptyDict
    /\ last_reading_timestamp = NONE
    /\ stored = NoRecord
    /\ new_readings = <<>>
    /\ TasksIdle
    /\ MergeIdle
    /\ ApiIdle
    /\ call_arg \in AnyReadings
    /\ call_applied = "none"
    /\ call_result = <<>>

ValidatorCall ==
    /\ call_applied = "none"
    /\ call_applied' = "_validate_reading_data"
    /\ call_result' = ValidateAnyReading(call_arg, now)
    /\ UNCHANGED <<call_arg, otherVars>>

SpecValidator == ValidatorInit /\ [][ValidatorCall]_vars

\* numeric as the contract has it: an integer, a float or a numeric string
\* that stands for a number
IsNumeric(value) ==
    /\ value.type \in {"int", "float", "str"}
    /\ value.kind \in {"finite", "huge", "inf", "neg_inf"}

\* 0 <= value <= 999999
InAcceptedRange(value) ==
    value.kind = "finite" /\ 0 <= value.num /\ value.num <= MAX_VALUE

\* C20: the validator accepts the value of a reading (one whose timestamp
\* is acceptable) exactly when the value is numeric and
\* 0 <= value <= 999999; every accepted reading has a value >= 0.
C20_ValueAcceptedIffInRange ==
    (/\ call_applied = "_validate_reading_data"
     /\ call_arg.is_dict
     /\ SafeConvertTimestamp(call_arg.timestamp, now) # NONE)
        => /\ call_result.accepted <=>
                (IsNumeric(call_arg.value) /\ InAcceptedRange(call_arg.value))
           /\ call_result.accepted =>
                (call_result.value.kind = "finite" /\ call_result.value.num >= 0)

(***************************************************************************)
(* SpecTimestamp: _safe_convert_timestamp applied to one timestamp.  A     *)
(* float may lie between two whole timestamps, and int() truncates it: a   *)
(* timestamp is num + half/2, the clock (a float) is now + clock_half/2,   *)
(* and comparisons are made in halves.  The window of 90 days is VALID_AGE *)
(* units as everywhere.  A bool converts to 0 or 1, far before any window: *)
(* it is given as 0.                                                       *)
(***************************************************************************)
WholeTimestamps == (-1)..(MaxNow + 2)

RawTimestamp(type, kind, num, half) ==
    [type |-> type, kind |-> kind, num |-> num, half |-> half]

\* what reading.get("timestamp") may be
AnyTimestamps ==
    {RawTimestamp("int", "finite", n, 0) : n \in WholeTimestamps}
        \cup {RawTimestamp(type, "finite", n, h) :
                 type \in {"float", "str"}, n \in WholeTimestamps, h \in {0, 1}}
        \cup {RawTimestamp(type, kind, 0, 0) :
                 type \in {"float", "str"}, kind \in {"nan", "inf", "neg_inf"}}
        \cup {RawTimestamp("bool", "finite", 0, 0), RawTimestamp("int", "huge", 0, 0),
              RawTimestamp("str", "text", 0, 0), RawTimestamp("NoneType", "text", 0, 0),
              RawTimestamp("list", "text", 0, 0)}

\* int(x) of a finite number: truncation towards zero
PyInt(num, half) == IF num < 0 /\ half = 1 THEN num + 1 ELSE num

\* _safe_convert_timestamp on any timestamp, the clock read as
\* current_time + clock_half/2; int(float("nan")) raises ValueError,
\* int(float("inf")) raises OverflowError, an int too large for the window
\* is in the future
SafeConvertAnyTimestamp(timestamp, current_time, clock_half) ==
    IF timestamp.type \notin {"str", "int", "float", "bool"} THEN NONE
    ELSE IF timestamp.kind # "finite" THEN NONE
    ELSE LET converted == PyInt(timestamp.num, timestamp.half)
             clock == 2 * current_time + clock_half
         IN  IF 2 * converted < clock - 2 * VALID_AGE \/ 2 * converted > clock
             THEN NONE
             ELSE IF converted > 0 THEN converted ELSE NONE

TimestampInit ==
    /\ now \in NowInit..(MaxNow + 1)
    /\ historical_days = UNLIMITED
    /\ historical_data = EmptyDict
    /\ last_reading_timestamp = NONE
    /\ stored = NoRecord
    /\ new_readings = <<>>
    /\ TasksIdle
    /\ MergeIdle
    /\ ApiIdle
    /\ call_arg \in [timestamp : AnyTimestamps, clock_half : {0, 1}]
    /\ call_applied = "none"
    /\ call_result = <<>>

TimestampCall ==
    /\ call_applied = "none"
    /\ call_applied' = "_safe_convert_timestamp"
    /\ call_result' = [timestamp |-> SafeConvertAnyTimestamp(call_arg.timestamp, now,
                                                             call_arg.clock_half)]
    /\ UNCHANGED <<call_arg, otherVars>>

SpecTimestamp == TimestampInit /\ [][TimestampCall]_vars

\* the timestamp given and the clock, in halves of a unit
GivenHalves == 2 * call_arg.timestamp.num + call_arg.timestamp.half
ClockHalves == 2 * now + call_arg.clock_half

\* a timestamp that stands for a number: an int, a float or a numeric string
IsNumericTimestamp(timestamp) ==
    /\ timestamp.type \in {"int", "float", "str"}
    /\ timestamp.kind = "finite"

\* C21: every timestamp the validator accepts lies in
\* [now - 90 days, now], and a timestamp that is more than 90 days in the
\* past, strictly in the future, missing or not numeric is rejected.
C21_TimestampWindow ==
    call_applied = "_safe_convert_timestamp" =>
        /\ call_result.timestamp # NONE =>
              /\ 2 * call_result.timestamp >= ClockHalves - 2 * VALID_AGE
              /\ 2 * call_result.timestamp <= ClockHalves
        /\ ~IsNumericTimestamp(call_arg.timestamp) => call_result.timestamp = NONE
        /\ (/\ IsNumericTimestamp(call_arg.timestamp)
            /\ (GivenHalves < ClockHalves - 2 * VALID_AGE \/ GivenHalves > ClockHalves))
              => call_result.timestamp = NONE

(***************************************************************************)
(* SpecCounter: the update counter of _async_update_data over many cycles. *)
(* call_arg counts the cycles that have reached the counter, call_result   *)
(* tells of the last one whether it fetched readings and whether it went   *)
(* on to _periodic_storage_cleanup with limited retention.                 *)
(***************************************************************************)
\* enough cycles to pass the reset of the counter twice
CountedCycles == 2 * COUNT_RESET + 2 * CLEANUP_EVERY

\* what a cycle may have fetched: nothing, or a reading
CountedFetches == {<<>>, <<[timestamp |-> 1, value |-> 10]>>}

\* where the cycle is after the fetch, the merge (if any) and the counter
AfterCounterPc(fetched, count, days) ==
    IF AfterFetchPc(fetched, count, days) = "merge_wait"
    THEN AfterMergePc(count, days)
    ELSE AfterFetchPc(fetched, count, days)

CounterInit ==
    /\ now = NowInit
    /\ historical_days \in HistoricalDaysChoices
    /\ historical_data = EmptyDict
    /\ last_reading_timestamp = NONE
    /\ stored = NoRecord
    /\ new_readings = <<>>
    /\ TasksIdle
    /\ MergeIdle
    /\ ApiIdle
    /\ call_arg = 0
    /\ call_applied = "none"
    /\ call_result = [fetched |-> FALSE, cleanup |-> FALSE]

\* one more cycle reaches the counter
CounterCycle ==
    /\ call_arg < CountedCycles
    /\ call_arg' = call_arg + 1
    /\ call_applied' = "_async_update_data"
    /\ update_count' = NextUpdateCount(update_count)
    /\ \E fetched \in CountedFetches :
          call_result' =
              [fetched |-> fetched # <<>>,
               cleanup |-> AfterCounterPc(fetched, update_count, historical_days)
                               = "cleanup_wait"]
    /\ UNCHANGED <<storeVars, new_readings, storage_lock, pc, fetch_since,
                   backfill_readings, forcing, cycle_result, fetch_outcome, latest_data,
                   merged, mergeVars, apiVars>>

SpecCounter == CounterInit /\ [][CounterCycle]_vars

\* C24: with limited retention the cleanup pass runs on the 10th, 20th,
\* 30th, ... cycle that reaches the cleanup step, with or without fetched
\* readings, and on no other cycle, also after the counter has been reset
\* past 1000; with unlimited retention it does not run.
C24_CleanupEveryTenthCycle ==
    call_applied = "_async_update_data" =>
        (call_result.cleanup <=>
            (historical_days # UNLIMITED /\ call_arg % CLEANUP_EVERY = 0))

\* the tenth cycle after the reset of the counter fetched nothing and ran
\* the cleanup pass
C24_Witness ==
    /\ call_arg = COUNT_RESET + CLEANUP_EVERY
    /\ update_count = CLEANUP_EVERY
    /\ call_result = [fetched |-> FALSE, cleanup |-> TRUE]

(***************************************************************************)
(* SpecHistory: the loop of async_get_all_historical_readings against a    *)
(* server that answers every window as it likes.  call_result holds the    *)
(* loop's state: the windows fetched, the list all_readings and how the    *)
(* call stands ("running", "returned", "raised").  The readings of a       *)
(* window are what async_get_readings_range returns for the body the       *)
(* server sent; the loop looks at their timestamps only, so one value is   *)
(* enough.                                                                 *)
(***************************************************************************)
\* what async_get_readings_range may return for a window with readings
HistoryBatches ==
    {GetReadingsRange(raw) :
        raw \in UNION {[1..k -> RawTimestamps \X {10}] : k \in 1..MaxBatch}}

HistoryState(windows, all_readings, status) ==
    [windows |-> windows, all_readings |-> all_readings, status |-> status]

HistoryInit ==
    /\ now = NowInit
    /\ historical_days = UNLIMITED
    /\ historical_data = EmptyDict
    /\ last_reading_timestamp = NONE
    /\ stored = NoRecord
    /\ new_readings = <<>>
    /\ TasksIdle
    /\ MergeIdle
    /\ ApiIdle
    /\ call_arg = <<>>
    /\ call_applied = "async_get_all_historical_readings"
    /\ call_result = HistoryState(0, <<>>, "running")

\* "start_date = current_date - timedelta(days=30)" can be computed
WindowExists(windows) == windows < MaxWindows

\* new_readings: the readings of the window whose timestamp is not among
\* those collected from the windows before
NotYetCollected(batch_readings, all_readings) ==
    LET existing_timestamps == Timestamps(all_readings)
    IN  SelectSeq(batch_readings, LAMBDA r : r.timestamp \notin existing_timestamps)

\* a window is answered with readings: those not seen yet are added and
\* the loop moves one window back, whether or not any was added
HistoryBatch ==
    /\ call_result.status = "running"
    /\ WindowExists(call_result.windows)
    /\ \E batch_readings \in HistoryBatches :
          call_result' =
              HistoryState(call_result.windows + 1,
                           call_result.all_readings
                               \o NotYetCollected(batch_readings, call_result.all_readings),
                           "running")
    /\ UNCHANGED <<call_arg, call_applied, otherVars>>

\* a window is answered with no reading, or its request raises (APIError,
\* or anything else: both handlers break): the sorted readings are returned
HistoryEnds ==
    /\ call_result.status = "running"
    /\ WindowExists(call_result.windows)
    /\ call_result' = [call_result EXCEPT !.status = "returned",
                                          !.all_readings = SortByTimestamp(@)]
    /\ UNCHANGED <<call_arg, call_applied, otherVars>>

\* the next window would start before datetime.min: the subtraction, which
\* is outside the try block, raises OverflowError out of the method
HistoryOverflow ==
    /\ call_result.status = "running"
    /\ ~WindowExists(call_result.windows)
    /\ call_result' = [call_result EXCEPT !.status = "raised"]
    /\ UNCHANGED <<call_arg, call_applied, otherVars>>

HistoryNext ==
    \/ HistoryBatch
    \/ HistoryEnds
    \/ HistoryOverflow

\* the loop has no await that never completes: it always takes its next step
SpecHistory == HistoryInit /\ [][HistoryNext]_vars /\ WF_vars(HistoryNext)

\* C27: whatever the server answers, also when every window brings at
\* least one reading that was seen before, the full-history fetch stops
\* after finitely many windows and returns.
C27_HistoryFetchReturns == <>(call_result.status = "returned")

\* C35: the list the full-history fetch returns is sorted by timestamp and
\* holds each timestamp at most once.
C35_HistoryResultUnique ==
    call_result.status = "returned" =>
        /\ IsSortedByTimestamp(call_result.all_readings)
        /\ NoDuplicateTimestamps(call_result.all_readings)

(***************************************************************************)
(* SpecUsage: the usage functions applied to one sequence of readings:     *)
(* calculate_usage_from_readings (api.py) and the aggregator functions     *)
(* _calculate_usage_for_period, _calculate_average_hourly_usage and        *)
(* _calculate_usage_metrics (coordinator.py).  A reading is well formed    *)
(* (a dict with a numeric timestamp and value) or malformed (a key is      *)
(* missing or not numeric).  Hours are the model's time units.             *)
(***************************************************************************)
UsageValues == {-1, 0, 10, 20}

Malformed == [ok |-> FALSE, timestamp |-> 0, value |-> 0]

UsageReadings ==
    [ok : {TRUE}, timestamp : 1..(NowInit + 1), value : UsageValues] \cup {Malformed}

UsageInputs == UNION {[1..n -> UsageReadings] : n \in 0..MaxReadings}

\* max(0, usage), with its slip: the difference as it is
NonNegative_AsIs(usage) == usage

NonNegative(usage) == IF usage > 0 THEN usage ELSE 0

\* one UsageWindow of calculate_usage_from_readings
UsageWindow(prev_reading, curr_reading) ==
    [start_timestamp |-> prev_reading.timestamp,
     end_timestamp |-> curr_reading.timestamp,
     start_value |-> prev_reading.value,
     end_value |-> curr_reading.value,
     usage |-> NonNegative(curr_reading.value - prev_reading.value),
     duration_hours |-> curr_reading.timestamp - prev_reading.timestamp]

\* a plausible slip: only a negative time difference is skipped
PairGivesWindow_AllowZero(prev_reading, curr_reading) ==
    /\ prev_reading.ok
    /\ curr_reading.ok
    /\ curr_reading.timestamp - prev_reading.timestamp >= 0

\* the pair (readings[i - 1], readings[i]) gives a window
PairGivesWindow(prev_reading, curr_reading) ==
    /\ prev_reading.ok
    /\ curr_reading.ok
    /\ curr_reading.timestamp - prev_reading.timestamp > 0

RECURSIVE UsageFrom(_, _)
UsageFrom(readings, i) ==
    IF i > Len(readings) THEN <<>>
    ELSE (IF PairGivesWindow(readings[i - 1], readings[i])
          THEN <<UsageWindow(readings[i - 1], readings[i])>>
          ELSE <<>>) \o UsageFrom(readings, i + 1)

\* calculate_usage_from_readings
CalculateUsageFromReadings(readings) ==
    IF Len(readings) < 2 THEN <<>> ELSE UsageFrom(readings, 2)

\* the readings of the store that _validate_reading_data lets through, sorted
ValidSortedReadings(readings, current_time) ==
    LET Validated(r) == ValidateReadingData(r, current_time)
        checked == SelectSeq(readings, LAMBDA r : r.ok /\ IsValidReading(r, current_time))
    IN  SortByTimestamp(MapSeq(Validated, checked))

\* _calculate_usage_for_period
CalculateUsageForPeriod(readings, current_time) ==
    LET valid_readings == ValidSortedReadings(readings, current_time)
    IN  IF Len(readings) < 2 \/ Len(valid_readings) < 2 THEN 0
        ELSE NonNegative(valid_readings[Len(valid_readings)].value
                            - valid_readings[1].value)

\* seq[-n:]
LastOf(seq, n) ==
    IF Len(seq) <= n THEN seq ELSE SubSeq(seq, Len(seq) - n + 1, Len(seq))

\* _calculate_average_hourly_usage; the quotient is rounded down
CalculateAverageHourlyUsage(readings, current_time) ==
    LET valid_readings == ValidSortedReadings(readings, current_time)
        cutoff_timestamp == current_time - MAX_DATA_AGE
        in_window == SelectSeq(valid_readings, LAMBDA r : r.timestamp >= cutoff_timestamp)
        recent_readings == IF Len(in_window) < 2
                           THEN LastOf(valid_readings, LAST_READINGS)
                           ELSE in_window
        first_reading == recent_readings[1]
        last_reading == recent_readings[Len(recent_readings)]
        total_usage == last_reading.value - first_reading.value
        time_span_hours == last_reading.timestamp - first_reading.timestamp
    IN  IF Len(readings) < 2 \/ Len(valid_readings) < 2 \/ Len(recent_readings) < 2 THEN 0
        ELSE IF time_span_hours <= 0 THEN 0
        ELSE NonNegative(total_usage \div time_span_hours)

\* the readings at or after a cutoff
ReadingsFrom(readings, cutoff) == SelectSeq(readings, LAMBDA r : r.timestamp >= cutoff)

\* max(readings, key=lambda x: x["timestamp"]): the first reading that carries
\* the greatest timestamp
LatestReading(readings) ==
    LET greatest == MaxTimestamp(readings)
        first == CHOOSE i \in 1..Len(readings) :
                     /\ readings[i].timestamp = greatest
                     /\ \A j \in 1..(i - 1) : readings[j].timestamp # greatest
    IN  readings[first]

\* _calculate_usage_metrics, given the starts of the local day and month and
\* the timestamp of a week ago; self.hass.config.time_zone is taken to be a
\* tzinfo that astimezone accepts
CalculateUsageMetrics(readings, current_time, start_of_day, week_ago, start_of_month) ==
    IF Len(readings) < 2
    THEN [hourly_usage |-> 0, daily_usage |-> 0, weekly_usage |-> 0]
    ELSE LET latest_reading == LatestReading(readings)
             latest_timestamp == latest_reading.timestamp
         IN  [hourly_usage |-> CalculateAverageHourlyUsage(readings, current_time),
              daily_usage |->
                  CalculateUsageForPeriod(ReadingsFrom(readings, start_of_day), current_time),
              weekly_usage |->
                  CalculateUsageForPeriod(ReadingsFrom(readings, week_ago), current_time),
              monthly_usage |->
                  CalculateUsageForPeriod(ReadingsFrom(readings, start_of_month),
                                          current_time),
              latest_reading |-> latest_reading,
              data_age_hours |-> IF latest_timestamp # 0
                                 THEN current_time - latest_timestamp
                                 ELSE 0]

\* every reading is a dict with both keys, as the readings of the store are
AllWellFormed(readings) == \A i \in 1..Len(readings) : readings[i].ok

UsageInit ==
    /\ now = NowInit
    /\ historical_days = UNLIMITED
    /\ historical_data = EmptyDict
    /\ last_reading_timestamp = NONE
    /\ stored = NoRecord
    /\ new_readings = <<>>
    /\ TasksIdle
    /\ MergeIdle
    /\ ApiIdle
    /\ call_arg \in UsageInputs
    /\ call_applied = "none"
    /\ call_result = <<>>

UsageFromReadingsCall ==
    /\ call_applied = "none"
    /\ call_applied' = "calculate_usage_from_readings"
    /\ call_result' = CalculateUsageFromReadings(call_arg)
    /\ UNCHANGED <<call_arg, otherVars>>

UsageForPeriodCall ==
    /\ call_applied = "none"
    /\ AllWellFormed(call_arg)
    /\ call_applied' = "_calculate_usage_for_period"
    /\ call_result' = CalculateUsageForPeriod(call_arg, now)
    /\ UNCHANGED <<call_arg, otherVars>>

AverageHourlyUsageCall ==
    /\ call_applied = "none"
    /\ AllWellFormed(call_arg)
    /\ call_applied' = "_calculate_average_hourly_usage"
    /\ call_result' = CalculateAverageHourlyUsage(call_arg, now)
    /\ UNCHANGED <<call_arg, otherVars>>

UsageMetricsCall ==
    /\ call_applied = "none"
    /\ AllWellFormed(call_arg)
    /\ call_applied' = "_calculate_usage_metrics"
    /\ \E start_of_day \in 1..now :
       \E week_ago \in 0..start_of_day :
       \E start_of_month \in 0..start_of_day :
          call_result' = CalculateUsageMetrics(call_arg, now, start_of_day, week_ago,
                                               start_of_month)
    /\ UNCHANGED <<call_arg, otherVars>>

UsageNext ==
    \/ UsageFromReadingsCall
    \/ UsageForPeriodCall
    \/ AverageHourlyUsageCall
    \/ UsageMetricsCall

SpecUsage == UsageInit /\ [][UsageNext]_vars

\* first and last reading well formed and apart in time, every reading
\* between them malformed, and at least one between them
OnlyEndsValid(readings) ==
    /\ Len(readings) >= 3
    /\ readings[1].ok
    /\ readings[Len(readings)].ok
    /\ readings[Len(readings)].timestamp > readings[1].timestamp
    /\ \A i \in 2..(Len(readings) - 1) : ~readings[i].ok

\* C28: for readings of which only the first and the last are valid,
\* calculate_usage_from_readings returns exactly one window, from the first
\* to the last reading, with the duration between those two timestamps.
C28_OneWindowAcrossMalformed ==
    (call_applied = "calculate_usage_from_readings" /\ OnlyEndsValid(call_arg))
        => call_result = <<UsageWindow(call_arg[1], call_arg[Len(call_arg)])>>

\* C29: usage is never negative: every window of
\* calculate_usage_from_readings and every hourly, daily, weekly and monthly
\* figure of the aggregator is >= 0, also when the values decrease.
C29_UsageNeverNegative ==
    /\ call_applied = "calculate_usage_from_readings" =>
          \A i \in 1..Len(call_result) : call_result[i].usage >= 0
    /\ call_applied \in {"_calculate_usage_for_period", "_calculate_average_hourly_usage"}
          => call_result >= 0
    /\ (call_applied = "_calculate_usage_metrics" /\ Len(call_arg) >= 2) =>
          /\ call_result.hourly_usage >= 0
          /\ call_result.daily_usage >= 0
          /\ call_result.weekly_usage >= 0
          /\ call_result.monthly_usage >= 0

\* a window over a decreasing value has been given usage 0
C29_Witness ==
    /\ call_applied = "calculate_usage_from_readings"
    /\ \E i \in 1..Len(call_result) :
          /\ call_result[i].end_value < call_result[i].start_value
          /\ call_result[i].usage = 0

\* the keys of the aggregator's result that carry a usage
UsageKeys == {"hourly_usage", "daily_usage", "weekly_usage", "monthly_usage"}

\* C30: with fewer than 2 readings in the store the aggregator returns
\* hourly, daily, weekly and monthly usage, each 0.
C30_AllZeroBelowTwoReadings ==
    (call_applied = "_calculate_usage_metrics" /\ Len(call_arg) < 2) =>
        /\ UsageKeys \subseteq DOMAIN call_result
        /\ \A key \in UsageKeys \cap DOMAIN call_result : call_result[key] = 0

\* C33: every UsageWindow that calculate_usage_from_readings returns has
\* end_timestamp > start_timestamp and duration_hours > 0, whatever the order
\* of the timestamps given.
C33_WindowsHavePositiveDuration ==
    call_applied = "calculate_usage_from_readings" =>
        \A i \in 1..Len(call_result) :
            /\ call_result[i].end_timestamp > call_result[i].start_timestamp
            /\ call_result[i].duration_hours > 0

\* the input has a pair of well-formed readings whose timestamps are equal
\* or out of order, and a window was returned for its other pair
C33_Witness ==
    /\ call_applied = "calculate_usage_from_readings"
    /\ AllWellFormed(call_arg)
    /\ \E i \in 2..Len(call_arg) : call_arg[i].timestamp <= call_arg[i - 1].timestamp
    /\ Len(call_result) = 1

(***************************************************************************)
(* SpecLoad: the first steps of _async_update_data with a persisted        *)
(* payload of any shape.  call_arg is what "await self.store.async_load()" *)
(* gives: it raises, or returns None, a value that is not a dict, or a     *)
(* dict with or without a list under "readings".                           *)
(***************************************************************************)
PayloadTypes == {"NoneType", "str", "list", "dict"}

\* the lists of readings a payload may hold
PayloadReadings ==
    {<<>>,
     <<[timestamp |-> 1, value |-> 10]>>,
     <<[timestamp |-> 1, value |-> 10], [timestamp |-> 2, value |-> 10]>>}

\* empty: the value is falsy (None, "", [], {}); has_readings: "readings" is
\* a key of the dict; last_reading_timestamp: NONE when the key is missing
StoredPayloads ==
    {d \in [raises : BOOLEAN, type : PayloadTypes, empty : BOOLEAN,
            has_readings : BOOLEAN, readings_type : PayloadTypes,
            readings : PayloadReadings, last_reading_timestamp : {NONE, 1, 2}] :
        /\ d.type = "NoneType" => d.empty
        /\ (d.type # "dict" \/ d.empty) =>
               ~d.has_readings /\ d.last_reading_timestamp = NONE
        /\ ~d.has_readings => d.readings_type = "NoneType"
        /\ d.readings_type # "list" => d.readings = <<>>
        /\ d.raises => d.type = "NoneType"}

\* a plausible slip: the type of "readings" is not looked at
LoadStoredPayload_AnyReadings(stored_data, last) ==
    IF stored_data.raises THEN <<FreshData, last>>
    ELSE IF ~stored_data.empty /\ stored_data.type = "dict"
    THEN IF stored_data.has_readings
         THEN <<[loaded |-> TRUE, readings |-> stored_data.readings,
                 last_reading_timestamp |-> stored_data.last_reading_timestamp],
                stored_data.last_reading_timestamp>>
         ELSE <<FreshData, last>>
    ELSE <<FreshData, last>>

\* _load_historical_data on that payload:
\* <<_historical_data, _last_reading_timestamp>>
LoadStoredPayload(stored_data, last) ==
    IF stored_data.raises THEN <<FreshData, last>>
    ELSE IF ~stored_data.empty /\ stored_data.type = "dict"
    THEN IF stored_data.has_readings /\ stored_data.readings_type = "list"
         THEN <<[loaded |-> TRUE, readings |-> stored_data.readings,
                 last_reading_timestamp |-> stored_data.last_reading_timestamp],
                stored_data.last_reading_timestamp>>
         ELSE <<FreshData, last>>
    ELSE <<FreshData, last>>

LoadInit ==
    /\ now = NowInit
    /\ historical_days \in HistoricalDaysChoices
    /\ historical_data = EmptyDict
    /\ last_reading_timestamp = NONE
    /\ stored = NoRecord
    /\ new_readings = <<>>
    /\ TasksIdle
    /\ MergeIdle
    /\ ApiIdle
    /\ call_arg \in StoredPayloads
    /\ call_applied = "none"
    /\ call_result = <<>>

\* the load returns, the lock is released, _fetch_new_readings starts
LoadReturns ==
    /\ pc["cycle"] = "load"
    /\ LET loaded == LoadStoredPayload(call_arg, last_reading_timestamp)
       IN  /\ historical_data' = loaded[1]
           /\ last_reading_timestamp' = loaded[2]
           /\ fetch_since' = FetchSince(loaded[2])
           /\ fetch_outcome' = <<FetchPhase(loaded[2], historical_days), "pending">>
    /\ storage_lock' = "free"
    /\ pc' = [pc EXCEPT !["cycle"] = "fetching"]
    /\ UNCHANGED <<now, historical_days, stored, new_readings, backfill_readings, forcing,
                   update_count, cycle_result, latest_data, merged, mergeVars, apiVars,
                   callVars>>

LoadNext ==
    \/ CycleStart
    \/ CycleLoadAcquire
    \/ LoadReturns

SpecLoad == LoadInit /\ [][LoadNext]_vars

\* the payload is absent, not a dict, without "readings", with "readings"
\* that is not a list, or reading it raised
UnusablePayload(stored_data) ==
    \/ stored_data.raises
    \/ stored_data.type # "dict"
    \/ ~stored_data.has_readings
    \/ stored_data.readings_type # "list"

\* C34: with an unusable payload the load leaves an empty store with no
\* last timestamp, and the cycle goes on to its fetch: it holds no lock and
\* has not failed.
C34_LoadNeverFailsCycle ==
    (UnusablePayload(call_arg) /\ pc["cycle"] \notin {"idle", "load_wait", "load"}) =>
        /\ pc["cycle"] = "fetching"
        /\ historical_data = FreshData
        /\ last_reading_timestamp = NONE
        /\ storage_lock = "free"
        /\ cycle_result = "none"
        /\ fetch_outcome[2] = "pending"

\* the load of a dict whose "readings" is not a list is over and the fetch
\* is under way
C34_Witness ==
    /\ call_arg.type = "dict"
    /\ call_arg.has_readings
    /\ call_arg.readings_type # "list"
    /\ pc["cycle"] = "fetching"
    /\ historical_data = FreshData

(***************************************************************************)
(* SpecFirstRun: the first cycle of a coordinator configured for unlimited *)
(* history, from the return of its fetch to the end of the merge.          *)
(* call_arg is what async_get_all_historical_readings returned.  The clock *)
(* also stands late enough for the oldest timestamp of a response to be    *)
(* more than VALID_AGE in the past.                                        *)
(***************************************************************************)
FirstRunInit ==
    /\ now \in NowInit..(MaxNow + 1)
    /\ historical_days = UNLIMITED
    /\ historical_data = FreshData
    /\ last_reading_timestamp = NONE
    /\ stored = NoRecord
    /\ new_readings = <<>>
    /\ TasksIdle
    /\ MergeIdle
    /\ ApiIdle
    /\ call_arg \in RangeResults
    /\ call_applied = "none"
    /\ call_result = <<>>

\* _fetch_new_readings: no last timestamp and historical_days = -1, so the
\* full history is fetched and handed on
FirstRunFetch ==
    /\ call_applied = "none"
    /\ FetchPhase(last_reading_timestamp, historical_days) = "full_history"
    /\ new_readings' = call_arg
    /\ call_applied' = "_fetch_new_readings"
    /\ UNCHANGED <<storeVars, taskVars, mergeVars, apiVars, call_arg, call_result>>

\* _update_historical_data with those readings
FirstRunMerge ==
    /\ call_applied = "_fetch_new_readings"
    /\ new_readings # <<>>
    /\ Apply(UpdateHistoricalData(historical_data, last_reading_timestamp,
                                  new_readings, historical_days, now))
    /\ call_applied' = "_update_historical_data"
    /\ UNCHANGED <<now, historical_days, new_readings, taskVars, mergeVars, apiVars,
                   call_arg, call_result>>

FirstRunNext ==
    \/ FirstRunFetch
    \/ FirstRunMerge

SpecFirstRun == FirstRunInit /\ [][FirstRunNext]_vars

\* C36: after the merge of a first run with unlimited history, every fetched
\* reading with a value in [0, MAX_VALUE] and a timestamp not in the future
\* is in the store, however old it is.
C36_UnlimitedFirstRunKeepsAll ==
    call_applied = "_update_historical_data" =>
        \A i \in 1..Len(call_arg) :
            (/\ call_arg[i].value >= 0
             /\ call_arg[i].value <= MAX_VALUE
             /\ call_arg[i].timestamp <= now)
                => call_arg[i].timestamp \in Timestamps(historical_data.readings)

(***************************************************************************)
(* SpecRetry: the calls of one user of the client, one after another,      *)
(* against a server that answers as it likes.  Every request ends, with a  *)
(* response or with the timeout of REQUEST_TIMEOUT, every sleep ends, and  *)
(* the event loop runs the caller whenever it can go on.                   *)
(***************************************************************************)
\* the steps of the call the caller does not choose to take
RetryStep ==
    \/ FirstLimitWake("cycle")
    \/ LimitWake("cycle")
    \/ HttpResponse("cycle")
    \/ RequestFails("cycle")
    \/ ErrorBodyUnreadable("cycle")
    \/ UnexpectedError("cycle")
    \/ NextAttempt("cycle")

RetryNext ==
    \/ ApiCall("cycle")
    \/ RetryStep
    \/ ApiReturn("cycle")
    \/ ApiTick

SpecRetry ==
    ApiInit /\ [][RetryNext]_vars /\ WF_vars(RetryStep) /\ WF_vars(ApiTick)

\* how a call may end
CallEnds == {"data", "InvalidAuth", "APIError", "APIError_network"}

\* C37: whatever the server answers, a call of _make_request_with_retry
\* issues at most max_retries requests and ends: it returns the body of a
\* 200 that was decoded, or raises InvalidAuth or APIError.
C37_CallEndsWithinCeiling ==
    /\ [](requests["cycle"] <= max_retries)
    /\ [](api_pc["cycle"] = "done" =>
             /\ outcome["cycle"] \in CallEnds
             /\ outcome["cycle"] = "data" => LastResponse("cycle") = "200")
    /\ (api_pc["cycle"] # "idle") ~> (api_pc["cycle"] = "done")

\* a call has ended after a 429, a timeout and a last request, the ceiling
\* being MAX_RETRIES
C37_Witness ==
    /\ max_retries = MAX_RETRIES
    /\ api_pc["cycle"] = "done"
    /\ requests["cycle"] = MAX_RETRIES
    /\ Count(responses["cycle"], "429") = 1
    /\ Count(responses["cycle"], "timeout") = 1

(***************************************************************************)
(* SpecConfigFlow: the configuration flow (config_flow.py).  The form is   *)
(* shown, the operator submits it as often as it comes back, and a         *)
(* submission whose options validate tests the token with one call of the  *)
(* client's async_get_readings against a server that answers as it likes.  *)
(* call_applied is the flow's position, call_arg the user_input of the     *)
(* last submission and call_result the FlowResult last returned.  The      *)
(* token is a str in every submission and is left out of user_input.       *)
(***************************************************************************)
\* the submissions: each option is left out or given, at and around the ends
\* of its range
UserInputs ==
    LET Values(key) ==
            CASE key = "scan_interval" -> {299, 300, 86400, 86401}
              [] key = "max_data_age_hours" -> {5, 6, 168, 169}
              [] key = "historical_days" -> {-1, 0, 1, 3650, 3651}
        AllValues == {-1, 0, 1, 5, 6, 168, 169, 299, 300, 3650, 3651, 86400, 86401}
    IN  UNION {{user_input \in [keys -> AllValues] :
                    \A key \in keys : user_input[key] \in Values(key)} :
               keys \in SUBSET {"scan_interval", "max_data_age_hours", "historical_days"}}

\* MIN_SCAN_INTERVAL <= interval <= MAX_SCAN_INTERVAL
validate_scan_interval(interval) == 300 <= interval /\ interval <= 86400

\* MIN_MAX_DATA_AGE_HOURS <= hours <= MAX_MAX_DATA_AGE_HOURS
validate_max_data_age_hours(hours) == 6 <= hours /\ hours <= 168

\* -1, or MIN_HISTORICAL_DAYS <= days <= MAX_HISTORICAL_DAYS
validate_historical_days(days) ==
    IF days = UNLIMITED THEN TRUE ELSE 1 <= days /\ days <= 3650

\* the errors async_step_user collects from the options that are given
OptionErrors(user_input) ==
    {<<"scan_interval", "scan_interval_invalid">> :
        key \in {k \in DOMAIN user_input :
                    /\ k = "scan_interval"
                    /\ ~validate_scan_interval(user_input[k])}}
    \cup {<<"max_data_age_hours", "max_data_age_hours_invalid">> :
        key \in {k \in DOMAIN user_input :
                    /\ k = "max_data_age_hours"
                    /\ ~validate_max_data_age_hours(user_input[k])}}
    \cup {<<"historical_days", "historical_days_invalid">> :
        key \in {k \in DOMAIN user_input :
                    /\ k = "historical_days"
                    /\ ~validate_historical_days(user_input[k])}}

\* async_test_connection: True when async_get_readings returns, which takes
\* a decoded 200 whose body has the readings in the expected form; False
\* when it raises InvalidAuth, APIError or anything else
async_test_connection(request_outcome, well_formed) ==
    request_outcome = "data" /\ well_formed

\* _test_credentials returns, or raises APIError("Failed to connect to API -
\* connection test returned False"); "words" is which of "network" and
\* "timeout" the lower-cased message contains.  async_test_connection raises
\* nothing, so the three except clauses have nothing to catch but this
\* APIError, which the second one raises again.
TestCredentials(success) ==
    IF success THEN [raises |-> "nothing", words |-> {}]
    ELSE [raises |-> "APIError", words |-> {}]

\* the except clauses of async_step_user, in their order
BaseError(raised) ==
    IF raised.raises = "InvalidAuth" THEN "invalid_auth"
    ELSE IF raised.raises = "APIError"
    THEN IF raised.words # {} THEN "cannot_connect" ELSE "api_error"
    ELSE "unknown"

\* async_step_user(None): the empty form
ShowForm ==
    /\ call_applied = "none"
    /\ call_applied' = "form"
    /\ call_result' = [type |-> "form", errors |-> {}]
    /\ UNCHANGED <<call_arg, storeVars, new_readings, taskVars, mergeVars, apiVars>>

\* async_step_user(user_input) up to the credential test: with an option
\* that does not validate the form comes back with the errors.  The form on
\* the screen is the empty one, or came back from validation or from a test
\* whose client is gone.
SubmitForm ==
    /\ call_applied \in {"form", "tested"}
    /\ api_pc["operator"] = "idle"
    /\ \E user_input \in UserInputs :
          /\ call_arg' = user_input
          /\ IF OptionErrors(user_input) # {}
             THEN /\ call_applied' = "form"
                  /\ call_result' = [type |-> "form",
                                     errors |-> OptionErrors(user_input)]
             ELSE /\ call_applied' = "_test_credentials"
                  /\ call_result' = [type |-> "none", errors |-> {}]
    /\ UNCHANGED <<storeVars, new_readings, taskVars, mergeVars, apiVars>>

\* _test_credentials builds a client of its own, whose first request finds
\* the interval elapsed, and calls async_test_connection
TestRequest ==
    /\ call_applied = "_test_credentials"
    /\ call_result.type = "none"
    /\ time_since_last = MIN_REQUEST_INTERVAL
    /\ ApiCall("operator")

\* the request has ended: the "else" of the try creates the entry, an
\* exception brings the form back with errors["base"]
TestEnds ==
    /\ call_applied = "_test_credentials"
    /\ api_pc["operator"] = "done"
    /\ \E well_formed \in BOOLEAN :
          LET raised == TestCredentials(
                            async_test_connection(outcome["operator"], well_formed))
          IN  IF raised.raises = "nothing"
              THEN /\ call_applied' = "entry"
                   /\ call_result' = [type |-> "create_entry", errors |-> {}]
              ELSE /\ call_applied' = "tested"
                   /\ call_result' = [type |-> "form",
                                      errors |-> {<<"base", BaseError(raised)>>}]
    /\ UNCHANGED <<call_arg, storeVars, new_readings, taskVars, mergeVars, apiVars>>

ConfigFlowNext ==
    \/ ShowForm
    \/ SubmitForm
    \/ TestRequest
    \/ LimitWake("operator")
    \/ HttpResponse("operator")
    \/ RequestFails("operator")
    \/ ErrorBodyUnreadable("operator")
    \/ UnexpectedError("operator")
    \/ NextAttempt("operator")
    \/ TestEnds
    \/ (call_applied = "tested" /\ ApiReturn("operator"))
    \/ ApiTick

SpecConfigFlow == ApiInit /\ [][ConfigFlowNext]_vars

\* C40: when the request of the credential test was answered with 401, the
\* flow shows the form with the error "invalid_auth" and creates no entry;
\* an entry is created only when every option given validates and the
\* credential test succeeded.
C40_InvalidAuthReported ==
    /\ (/\ call_applied = "tested"
        /\ api_pc["operator"] = "done"
        /\ LastResponse("operator") = "401")
           => /\ call_result.type = "form"
              /\ <<"base", "invalid_auth">> \in call_result.errors
    /\ call_applied = "entry"
           => /\ OptionErrors(call_arg) = {}
              /\ outcome["operator"] = "data"

====
